---- MODULE Spec2Model ----
(***************************************************************************)
(* Synergy ID allocator and inventory explosion engine                     *)
(* (src/fastapi/routes_synergy.py, db_utils.py, routes_po.py,              *)
(* routes_label_inventory.py).                                             *)
(*                                                                         *)
(* Every request handler runs in one PostgreSQL transaction opened by      *)
(* db(): READ COMMITTED, one step per SQL statement, writes buffered in    *)
(* the transaction until COMMIT, row locks held until COMMIT/ROLLBACK.     *)
(***************************************************************************)
EXTENDS Integers, Sequences, FiniteSets, TLC

\* ---------------------------------------------------------------- bounds
MaxSeq == 3
MaxEvents == 3
MaxQty == 2
MaxPatch == 2
ExampleEvents == 6
ExampleSeq == 6

\* ------------------------------------------------------- static catalogue
Txns == {1, 2}
Prefixes == {"A", "B"}
NULL == <<>>
NoRow == 0
NoTx == 0

\* categories(id, prefix): category "cX" has no prefix, "" is a NULL category_guess
Categories == {"cA", "cB", "cX"}
NoCat == ""
CategoryPrefix(c) == IF c = "cA" THEN "A" ELSE IF c = "cB" THEN "B" ELSE ""

\* po_lines(id, purchase_order_id, created_at): ids are random UUIDs, so id
\* order and creation order differ
Lines == {1, 2, 3}
POs == {1, 2}
LinePO(l) == IF l = 3 THEN 2 ELSE 1
CreatedAt(l) == IF l = 1 THEN 2 ELSE IF l = 2 THEN 1 ELSE 3

VARIABLES
    id_prefix_counters,   \* committed id_prefix_counters: prefix -> next_seq (NoRow = no row)
    purchase_orders,      \* committed purchase_orders: the ids of the rows that exist
    po_lines,             \* committed po_lines: the ids of the rows that exist
    category_guess,       \* po_lines.category_guess
    qty,                  \* po_lines.qty
    synergy_id,           \* po_lines.synergy_id (NULL until minted)
    inventory_items,      \* committed inventory_items rows
    synergy_id_events,    \* committed synergy_id_events, in insertion order
    label_inventory,      \* committed label_inventory.synergy_id values
    lock,                 \* row lock on id_prefix_counters(prefix): owning transaction
    tx,                   \* per connection: the running handler, its locals and its uncommitted writes
    returned,             \* history: codes returned by _get_next_synergy_code in committed transactions
    hist,                 \* history of connection 1: the committed tables when its request began,
                          \* what its previous request was and answered (mint, peek),
                          \* the purchase order its previous request exploded (0: it did something else)
                          \* the codes its last preview of untouched tables listed, and the
                          \* previews of its previous request (<<>>: it was no preview)
    limit                 \* how far a run is followed: new requests start while the event log is
                          \* shorter than limit.events and no counter is above limit.seq

vars == <<id_prefix_counters, purchase_orders, po_lines, category_guess, qty, synergy_id, inventory_items,
          synergy_id_events, label_inventory, lock, tx, returned, hist, limit>>

db_tables == <<id_prefix_counters, purchase_orders, po_lines, category_guess, qty, synergy_id, inventory_items,
               synergy_id_events, label_inventory>>

ghost == <<returned, hist, limit>>

\* ------------------------------------------------------------ text helpers
Max(a, b) == IF a >= b THEN a ELSE b

SetMax(S) == IF S = {} THEN 0 ELSE CHOOSE m \in S : \A x \in S : x <= m

DigitChars == <<"0", "1", "2", "3", "4", "5", "6", "7", "8", "9">>

RECURSIVE Str(_)
\* str(int(seq)): decimal digits of a non-negative integer
Str(n) == IF n < 10 THEN <<DigitChars[n + 1]>>
          ELSE Str(n \div 10) \o <<DigitChars[(n % 10) + 1]>>

RECURSIVE ZFill(_, _)
\* str.zfill(width): left-pad with "0" up to width, never truncate
ZFill(s, width) == IF Len(s) >= width THEN s ELSE ZFill(<<"0">> \o s, width)

\* routes_synergy.fmt_synergy: f"{prefix}-{str(int(seq)).zfill(5)}"
fmt_synergy(prefix, seq) == <<prefix, "-">> \o ZFill(Str(seq), 5)

DigitVal(c) == CHOOSE d \in 0..9 : DigitChars[d + 1] = c

RECURSIVE ToInt(_)
\* CAST(text AS INTEGER) of a digit string
ToInt(s) == IF s = <<>> THEN 0
            ELSE 10 * ToInt(SubSeq(s, 1, Len(s) - 1)) + DigitVal(s[Len(s)])

\* synergy_id LIKE prefix || '-%'
Like(code, prefix) == Len(code) >= 2 /\ code[1] = prefix /\ code[2] = "-"

RECURSIVE TakeField(_)
\* the characters of s before its first "-"
TakeField(s) == IF s = <<>> \/ Head(s) = "-" THEN <<>> ELSE <<Head(s)>> \o TakeField(Tail(s))

\* SPLIT_PART(code, '-', 2)
SplitPart2(code) == LET first == TakeField(code)
                    IN IF Len(first) >= Len(code) THEN <<>>
                       ELSE TakeField(SubSeq(code, Len(first) + 2, Len(code)))

\* COALESCE(MAX(CAST(NULLIF(SPLIT_PART(synergy_id,'-',2),'') AS INTEGER)), 0) ... WHERE synergy_id LIKE prefix-%
MaxSeqOf(codes, prefix) == SetMax({ToInt(SplitPart2(c)) : c \in {x \in codes : Like(x, prefix)}})

\* ------------------------------------------------- connection / transaction
Unwritten == <<"~">>

\* seq_by_prefix of synergy_preview has no entry for the prefix
NotSeeded == -1

\* a connection between requests: no handler running, nothing buffered
IdleTx == [op |-> "idle", pc |-> "idle", ret |-> "", prefix |-> "", po |-> 0,
           line_ids |-> {}, overwrite |-> FALSE, nxt |-> 0, category |-> NoCat,
           true_max_seq |-> 0, next_seq |-> 0, old_next |-> 0, new_code |-> NULL,
           rows |-> <<>>, idx |-> 0, unit |-> 0, line |-> 0,
           existing_counts |-> [l \in Lines |-> 0], existing_codes |-> {},
           pre_minted |-> [l \in Lines |-> NULL], line_qty |-> [l \in Lines |-> 0],
           locked_read |-> {}, n_alloc |-> 0,
           created |-> 0, skipped |-> 0, updated |-> 0, state |-> "",
           w_counters |-> [p \in Prefixes |-> NoRow],
           w_synergy_id |-> [l \in Lines |-> Unwritten],
           w_qty |-> [l \in Lines |-> 0],
           w_items |-> {}, w_events |-> <<>>, w_labels |-> {},
           d_lines |-> {}, d_items |-> {}, d_pos |-> {}, safe_next |-> 0,
           failed |-> FALSE, audit_failed |-> FALSE, got |-> <<>>, content |-> NULL,
           seq_by_prefix |-> [p \in Prefixes |-> NotSeeded], previews |-> <<>>, reason |-> "",
           outcome |-> "", status |-> 0]

Active(t) == tx[t].pc \notin {"idle", "done"}

\* READ COMMITTED: a statement sees what is committed when it starts plus the
\* transaction's own writes
ViewCounter(t, p) == IF tx[t].w_counters[p] # NoRow THEN tx[t].w_counters[p] ELSE id_prefix_counters[p]

ViewLines(t) == po_lines \ tx[t].d_lines

ViewSynergyId(t, l) == IF tx[t].w_synergy_id[l] # Unwritten THEN tx[t].w_synergy_id[l] ELSE synergy_id[l]

ViewItems(t) == (inventory_items \ tx[t].d_items) \cup tx[t].w_items

ViewQty(t, l) == IF tx[t].w_qty[l] # 0 THEN tx[t].w_qty[l] ELSE qty[l]

\* the two scans of routes_synergy.py:103-122 / 166-185: the column read is
\* synergy_id in both tables; inventory_items rows keep their code in
\* synergy_code and no INSERT of the repository sets inventory_items.synergy_id,
\* so the scan of that table finds no code (a failing scan statement is Abort)
ScanItems(t, prefix) == MaxSeqOf({i.synergy_id : i \in ViewItems(t)}, prefix)

ScanLines(t, prefix) == MaxSeqOf({ViewSynergyId(t, l) : l \in ViewLines(t)}, prefix)

\* a row lock is free for t when nobody else holds it
LockFree(t, p) == lock[p] \in {NoTx, t}

Release(t) == [p \in Prefixes |-> IF lock[p] = t THEN NoTx ELSE lock[p]]

\* history bound: new requests are only started while the tables are small
Bounded == /\ Len(synergy_id_events) < limit.events
           /\ \A p \in Prefixes : id_prefix_counters[p] <= limit.seq

CanBegin(t) == ~Active(t) /\ Bounded

\* no counter row, no line code, no item: the tables before any code was made
Untouched(h) ==
    /\ \A p \in Prefixes : h.counters[p] = NoRow
    /\ \A l \in Lines : h.synergy_id[l] = NULL
    /\ h.items = {}

\* every code listed in the "previews" of a synergy_preview response
PreviewedCodes(previews) ==
    UNION {{previews[k].codes[j] : j \in 1..Len(previews[k].codes)} : k \in 1..Len(previews)}

\* the last preview of a purchase order and how far its commitment has got:
\* "previewed" right after the preview, "minted" when the request that followed
\* it was a committed mint of the same purchase order without overwrite
NoPlan == [stage |-> "none", po |-> 0, previews |-> <<>>]

PlanAfter(plan, r) ==
    IF r.op = "preview" /\ r.outcome = "committed"
    THEN [stage |-> "previewed", po |-> r.po, previews |-> r.previews]
    ELSE IF /\ r.op = "mint" /\ r.outcome = "committed" /\ plan.stage = "previewed"
            /\ r.po = plan.po /\ r.line_ids = {} /\ ~r.overwrite
    THEN [plan EXCEPT !.stage = "minted"]
    ELSE NoPlan

\* the request before this one was not a committed mint without overwrite
NoMint == [po |-> 0, line_ids |-> {}]

\* the request before this one was not a peek that answered
NoPeek == [prefix |-> "", content |-> NULL]

\* a request arrives on connection t: db() hands out the connection and the
\* handler starts with the locals in rec
Begin(t, rec) ==
    /\ CanBegin(t)
    /\ tx' = [tx EXCEPT ![t] = rec]
    /\ hist' = IF t = 1
               THEN [counters |-> id_prefix_counters, lines |-> po_lines, qty |-> qty,
                     synergy_id |-> synergy_id, items |-> inventory_items,
                     events |-> synergy_id_events,
                     prev_exploded |-> IF tx[t].op = "explode" /\ tx[t].outcome = "committed"
                                       THEN tx[t].po ELSE 0,
                     previewed |-> IF tx[t].op = "preview" /\ tx[t].outcome = "committed"
                                   THEN IF Untouched(hist) THEN PreviewedCodes(tx[t].previews) ELSE {}
                                   ELSE hist.previewed,
                     prev_previews |-> IF tx[t].op = "preview" /\ tx[t].outcome = "committed"
                                       THEN tx[t].previews ELSE <<>>,
                     plan |-> PlanAfter(hist.plan, tx[t]),
                     prev_mint |-> IF tx[t].op = "mint" /\ tx[t].outcome = "committed" /\ ~tx[t].overwrite
                                   THEN [po |-> tx[t].po, line_ids |-> tx[t].line_ids]
                                   ELSE NoMint,
                     prev_peek |-> IF tx[t].op \in {"peek", "legacy_peek"} /\ tx[t].status = 200
                                   THEN [prefix |-> tx[t].prefix, content |-> tx[t].content]
                                   ELSE NoPeek]
               ELSE hist
    /\ UNCHANGED <<db_tables, lock, returned, limit>>

Init ==
    /\ id_prefix_counters = [p \in Prefixes |-> NoRow]
    /\ purchase_orders = POs
    /\ po_lines = Lines
    /\ category_guess \in {f \in [Lines -> Categories \cup {NoCat}] : f[2] = "cA" /\ f[3] = "cA"}
    /\ qty = [l \in Lines |-> 1]
    /\ synergy_id = [l \in Lines |-> NULL]
    /\ inventory_items = {}
    /\ synergy_id_events = <<>>
    /\ label_inventory = {}
    /\ lock = [p \in Prefixes |-> NoTx]
    /\ tx = [t \in Txns |-> IdleTx]
    /\ returned = <<>>
    /\ hist = [counters |-> id_prefix_counters, lines |-> po_lines, qty |-> qty,
               synergy_id |-> synergy_id, items |-> inventory_items,
               events |-> synergy_id_events, prev_exploded |-> 0, previewed |-> {},
               prev_previews |-> <<>>, plan |-> NoPlan, prev_mint |-> NoMint, prev_peek |-> NoPeek]
    /\ limit = [events |-> MaxEvents, seq |-> MaxSeq]

\* ---------------------------------------- _get_next_synergy_code, by statement
\* SELECT next_seq FROM id_prefix_counters WHERE prefix = %s FOR UPDATE
\* An existing row is locked (waiting for its holder); a missing row locks
\* nothing and the statement returns no row at once.
AllocSelect(t) ==
    LET p == tx[t].prefix
        n == ViewCounter(t, p)
    IN /\ tx[t].pc = "alloc_select"
       /\ ~tx[t].failed
       /\ IF n # NoRow
          THEN /\ LockFree(t, p)
               /\ lock' = [lock EXCEPT ![p] = t]
               /\ tx' = [tx EXCEPT ![t].next_seq = n, ![t].pc = "alloc_upsert",
                                   ![t].locked_read = @ \cup {p}, ![t].n_alloc = @ + 1]
          ELSE /\ lock' = lock
               /\ tx' = [tx EXCEPT ![t].true_max_seq = 0, ![t].pc = "alloc_scan_items",
                                   ![t].locked_read = @ \cup {p}, ![t].n_alloc = @ + 1]
       /\ UNCHANGED <<db_tables, ghost>>

\* first pass of the loop: table = "inventory_items"
AllocScanItems(t) ==
    /\ tx[t].pc = "alloc_scan_items"
    /\ ~tx[t].failed
    /\ tx' = [tx EXCEPT ![t].true_max_seq = Max(tx[t].true_max_seq, ScanItems(t, tx[t].prefix)),
                        ![t].pc = "alloc_scan_lines"]
    /\ UNCHANGED <<db_tables, lock, ghost>>

\* second pass: table = "po_lines"; then next_seq = true_max_seq + 1
AllocScanLines(t) ==
    LET m == Max(tx[t].true_max_seq, ScanLines(t, tx[t].prefix))
    IN /\ tx[t].pc = "alloc_scan_lines"
       /\ ~tx[t].failed
       /\ tx' = [tx EXCEPT ![t].true_max_seq = m, ![t].next_seq = m + 1, ![t].pc = "alloc_upsert"]
       /\ UNCHANGED <<db_tables, lock, ghost>>

\* mutation: the upsert stores next_seq instead of next_seq + 1
AllocUpsert_no_advance(t) ==
    LET p == tx[t].prefix
    IN /\ tx[t].pc = "alloc_upsert"
       /\ ~tx[t].failed
       /\ LockFree(t, p)
       /\ lock' = [lock EXCEPT ![p] = t]
       /\ tx' = [tx EXCEPT ![t].new_code = fmt_synergy(p, tx[t].next_seq),
                           ![t].w_counters[p] = tx[t].next_seq,
                           ![t].pc = "alloc_audit"]
       /\ UNCHANGED <<db_tables, ghost>>

\* mutation: the upsert reserves two numbers
AllocUpsert_skips_one(t) ==
    LET p == tx[t].prefix
    IN /\ tx[t].pc = "alloc_upsert"
       /\ ~tx[t].failed
       /\ LockFree(t, p)
       /\ lock' = [lock EXCEPT ![p] = t]
       /\ tx' = [tx EXCEPT ![t].new_code = fmt_synergy(p, tx[t].next_seq),
                           ![t].w_counters[p] = tx[t].next_seq + 2,
                           ![t].pc = "alloc_audit"]
       /\ UNCHANGED <<db_tables, ghost>>

\* mutation: the upsert locks the whole counter table
AllocUpsert_locks_table(t) ==
    LET p == tx[t].prefix
    IN /\ tx[t].pc = "alloc_upsert"
       /\ ~tx[t].failed
       /\ \A q \in Prefixes : LockFree(t, q)
       /\ lock' = [q \in Prefixes |-> t]
       /\ tx' = [tx EXCEPT ![t].new_code = fmt_synergy(p, tx[t].next_seq),
                           ![t].w_counters[p] = tx[t].next_seq + 1,
                           ![t].pc = "alloc_audit"]
       /\ UNCHANGED <<db_tables, ghost>>

\* new_code = fmt_synergy(prefix, next_seq);
\* INSERT ... VALUES (prefix, next_seq + 1) ON CONFLICT (prefix) DO UPDATE
\* (waits for a concurrent uncommitted insert or update of the same key)
AllocUpsert(t) ==
    LET p == tx[t].prefix
    IN /\ tx[t].pc = "alloc_upsert"
       /\ ~tx[t].failed
       /\ LockFree(t, p)
       /\ lock' = [lock EXCEPT ![p] = t]
       /\ tx' = [tx EXCEPT ![t].new_code = fmt_synergy(p, tx[t].next_seq),
                           ![t].w_counters[p] = tx[t].next_seq + 1,
                           ![t].pc = "alloc_audit"]
       /\ UNCHANGED <<db_tables, ghost>>

\* log_synergy_event: one synergy_id_events row; meta holds the numbers of the
\* meta JSON ("source" for mint, safe_next for reset, old_next/new_next/reason for set)
log_synergy_event(event_type, prefix, seq, code, meta) ==
    [event_type |-> event_type, prefix |-> prefix, seq |-> seq, code |-> code, meta |-> meta]

\* mutation: the event records the stored next_seq instead of the sequence handed out
MintEvent_logs_stored_next(t) == log_synergy_event("mint", tx[t].prefix, tx[t].next_seq + 1, tx[t].new_code, <<>>)

MintEvent(t) == log_synergy_event("mint", tx[t].prefix, tx[t].next_seq, tx[t].new_code, <<>>)

\* try: log_synergy_event(...) except Exception: pass; return new_code
\* A failed INSERT leaves the PostgreSQL transaction aborted; the Python
\* exception is swallowed and the code is returned to the caller.
AllocAudit(t) ==
    /\ tx[t].pc = "alloc_audit"
    /\ ~tx[t].failed
    /\ \E insert_ok \in BOOLEAN :
          tx' = [tx EXCEPT ![t].w_events = IF insert_ok THEN Append(tx[t].w_events, MintEvent(t))
                                           ELSE tx[t].w_events,
                           ![t].failed = ~insert_ok,
                           ![t].audit_failed = tx[t].audit_failed \/ ~insert_ok,
                           ![t].got = Append(tx[t].got, tx[t].new_code),
                           ![t].pc = tx[t].ret]
    /\ UNCHANGED <<db_tables, lock, ghost>>

\* ------------------------------------------------------------ db() exit
\* the connection goes back to the pool; what is left of the request is its
\* arguments and its response
Finished(r, outcome, status) ==
    LET args == [IdleTx EXCEPT !.op = r.op, !.pc = "done", !.prefix = r.prefix, !.po = r.po,
                               !.line_ids = r.line_ids, !.overwrite = r.overwrite, !.nxt = r.nxt,
                               !.audit_failed = r.audit_failed, !.n_alloc = r.n_alloc,
                               !.safe_next = r.safe_next, !.reason = r.reason,
                               !.outcome = outcome, !.status = status]
    IN IF status = 200
       THEN [args EXCEPT !.created = r.created, !.skipped = r.skipped, !.updated = r.updated,
                         !.state = r.state, !.got = r.got, !.previews = r.previews,
                         !.content = r.content]
       ELSE args

\* mutation: the counter advance of the rolled back transaction stays
Rollback_keeps_counters(t, outcome, status) ==
    /\ tx' = [tx EXCEPT ![t] = Finished(tx[t], outcome, status)]
    /\ lock' = Release(t)
    /\ id_prefix_counters' = [p \in Prefixes |-> ViewCounter(t, p)]
    /\ UNCHANGED <<purchase_orders, po_lines, category_guess, qty, synergy_id, inventory_items,
                   synergy_id_events, label_inventory, ghost>>

\* con.rollback(): every buffered write and every lock of the transaction goes
Rollback(t, outcome, status) ==
    /\ tx' = [tx EXCEPT ![t] = Finished(tx[t], outcome, status)]
    /\ lock' = Release(t)
    /\ UNCHANGED <<db_tables, ghost>>

\* mutation: a commit keeps only the audit events of its own transaction
Commit_rewrites_log(t) ==
    /\ tx[t].pc = "commit"
    /\ IF tx[t].failed
       THEN Rollback(t, "rolled_back", 200)
       ELSE /\ id_prefix_counters' = [p \in Prefixes |-> ViewCounter(t, p)]
            /\ purchase_orders' = purchase_orders \ tx[t].d_pos
            /\ po_lines' = ViewLines(t)
            /\ qty' = [l \in Lines |-> ViewQty(t, l)]
            /\ synergy_id' = [l \in Lines |-> IF l \in ViewLines(t) THEN ViewSynergyId(t, l) ELSE NULL]
            /\ inventory_items' = ViewItems(t)
            /\ synergy_id_events' = tx[t].w_events
            /\ label_inventory' = label_inventory \cup tx[t].w_labels
            /\ returned' = returned \o tx[t].got
            /\ lock' = Release(t)
            /\ tx' = [tx EXCEPT ![t] = Finished(tx[t], "committed", 200)]
            /\ UNCHANGED <<category_guess, hist, limit>>

\* con.commit() after the handler body returned: COMMIT of a healthy
\* transaction publishes its writes; COMMIT of an aborted transaction is
\* answered with ROLLBACK and raises nothing, so the handler's response stands
Commit(t) ==
    /\ tx[t].pc = "commit"
    /\ IF tx[t].failed
       THEN Rollback(t, "rolled_back", 200)
       ELSE /\ id_prefix_counters' = [p \in Prefixes |-> ViewCounter(t, p)]
            /\ purchase_orders' = purchase_orders \ tx[t].d_pos
            /\ po_lines' = ViewLines(t)
            /\ qty' = [l \in Lines |-> ViewQty(t, l)]
            /\ synergy_id' = [l \in Lines |-> IF l \in ViewLines(t) THEN ViewSynergyId(t, l) ELSE NULL]
            /\ inventory_items' = ViewItems(t)
            /\ synergy_id_events' = synergy_id_events \o tx[t].w_events
            /\ label_inventory' = label_inventory \cup tx[t].w_labels
            /\ returned' = returned \o tx[t].got
            /\ lock' = Release(t)
            /\ tx' = [tx EXCEPT ![t] = Finished(tx[t], "committed", 200)]
            /\ UNCHANGED <<category_guess, hist, limit>>

\* any statement sent on an aborted transaction raises InFailedSqlTransaction;
\* db() catches it, rolls back and re-raises
InFailedSqlTransaction(t) ==
    /\ Active(t)
    /\ tx[t].pc # "commit"
    /\ tx[t].failed
    /\ Rollback(t, "raised", 500)

\* the counter store or a later statement fails, or the call is cancelled:
\* the exception leaves the with-block and db() rolls back
Abort(t) ==
    /\ Active(t)
    /\ ~tx[t].failed
    /\ Rollback(t, "raised", 500)

\* -------------------------------------------------- POST /prefix/{p}/take
prefix_take(t, p) ==
    /\ p \in Prefixes
    /\ Begin(t, [IdleTx EXCEPT !.op = "take", !.prefix = p, !.pc = "alloc_select", !.ret = "commit"])

\* ----------------------------------------------------- GET /prefix/{p}/peek
\* routes_synergy.prefix_peek: next_seq = _get_starting_seq_for_prefix(cur, prefix) + 1
prefix_peek(t, p) ==
    /\ p \in Prefixes
    /\ Begin(t, [IdleTx EXCEPT !.op = "peek", !.prefix = p, !.pc = "pk_call"])

\* no module of the repository defines or imports _get_starting_seq_for_prefix:
\* the call raises NameError inside the with-block, db() rolls back and re-raises
PeekCall(t) ==
    /\ tx[t].pc = "pk_call"
    /\ Rollback(t, "raised", 500)

\* main.fmt_synergy: f"{prefix}-{str(int(seq)).zfill(4)}"
legacy_fmt_synergy(prefix, seq) == <<prefix, "-">> \o ZFill(Str(seq), 4)

\* main.prefix_peek
legacy_prefix_peek(t, p) ==
    /\ p \in Prefixes
    /\ Begin(t, [IdleTx EXCEPT !.op = "legacy_peek", !.prefix = p, !.pc = "lp_select"])

\* SELECT next_seq FROM id_prefix_counters WHERE prefix=%s;
\* next_seq = row["next_seq"] if row else 1; the response is fmt_synergy(prefix, next_seq)
LegacyPeekSelect(t) ==
    LET n == ViewCounter(t, tx[t].prefix)
    IN /\ tx[t].pc = "lp_select"
       /\ ~tx[t].failed
       /\ tx' = [tx EXCEPT ![t].content = legacy_fmt_synergy(tx[t].prefix, IF n = NoRow THEN 1 ELSE n),
                           ![t].pc = "commit"]
       /\ UNCHANGED <<db_tables, lock, ghost>>

\* ---------------------------------------------- POST /pos/{po_id}/mint_synergy
RECURSIVE SortLines(_, _)
\* ORDER BY <key> ASC, id ASC over a set of line ids; key = 0 orders by id alone
SortLines(S, byCreated) ==
    IF S = {} THEN <<>>
    ELSE LET first == CHOOSE l \in S : \A m \in S :
                          IF byCreated /\ CreatedAt(l) # CreatedAt(m)
                          THEN CreatedAt(l) < CreatedAt(m)
                          ELSE l <= m
         IN <<first>> \o SortLines(S \ {first}, byCreated)

\* LEFT JOIN categories c ON c.id = pl.category_guess; (prefix or "").strip()
LinePrefix(l) == CategoryPrefix(category_guess[l])

mint_synergy(t, po, line_ids, overwrite) ==
    /\ line_ids \subseteq Lines
    /\ Begin(t, [IdleTx EXCEPT !.op = "mint", !.po = po, !.line_ids = line_ids, !.overwrite = overwrite,
                               !.pc = IF overwrite THEN "mint_clear" ELSE "mint_select"])

\* if overwrite: UPDATE po_lines SET synergy_id = NULL WHERE id = ANY(line_ids)
\*               or, without line_ids, WHERE purchase_order_id = po_id
MintClear(t) ==
    LET hit == IF tx[t].line_ids # {} THEN tx[t].line_ids \cap ViewLines(t)
               ELSE {l \in ViewLines(t) : LinePO(l) = tx[t].po}
    IN /\ tx[t].pc = "mint_clear"
       /\ ~tx[t].failed
       /\ tx' = [tx EXCEPT ![t].w_synergy_id = [l \in Lines |-> IF l \in hit THEN NULL ELSE @[l]],
                           ![t].pc = "mint_select"]
       /\ UNCHANGED <<db_tables, lock, ghost>>

\* for r in rows_to_mint: if not prefix: continue; code = _get_next_synergy_code(cur, prefix)
RECURSIVE MintNext(_)
MintNext(r) ==
    IF r.idx > Len(r.rows) THEN [r EXCEPT !.pc = "commit"]
    ELSE IF LinePrefix(r.rows[r.idx]) = "" THEN MintNext([r EXCEPT !.idx = @ + 1])
    ELSE [r EXCEPT !.line = r.rows[r.idx], !.prefix = LinePrefix(r.rows[r.idx]),
                   !.pc = "alloc_select", !.ret = "mint_update"]

\* mutation: lines that already carry a code are selected too
MintSelect_takes_coded_lines(t) ==
    LET sel == {l \in ViewLines(t) : /\ LinePO(l) = tx[t].po
                                     /\ (tx[t].line_ids = {} \/ l \in tx[t].line_ids)}
    IN /\ tx[t].pc = "mint_select"
       /\ ~tx[t].failed
       /\ tx' = [tx EXCEPT ![t] = MintNext([tx[t] EXCEPT !.rows = SortLines(sel, TRUE), !.idx = 1])]
       /\ UNCHANGED <<db_tables, lock, ghost>>

\* SELECT pl.id, c.prefix ... WHERE purchase_order_id = po AND (line_ids IS NULL OR id = ANY(line_ids))
\*   AND synergy_id IS NULL ORDER BY COALESCE(created_at, NOW()), id
MintSelect(t) ==
    LET sel == {l \in ViewLines(t) : /\ LinePO(l) = tx[t].po
                                     /\ (tx[t].line_ids = {} \/ l \in tx[t].line_ids)
                                     /\ ViewSynergyId(t, l) = NULL}
    IN /\ tx[t].pc = "mint_select"
       /\ ~tx[t].failed
       /\ tx' = [tx EXCEPT ![t] = MintNext([tx[t] EXCEPT !.rows = SortLines(sel, TRUE), !.idx = 1])]
       /\ UNCHANGED <<db_tables, lock, ghost>>

\* UPDATE po_lines SET synergy_id = code WHERE id = line_id; updated += 1
MintUpdate(t) ==
    /\ tx[t].pc = "mint_update"
    /\ ~tx[t].failed
    /\ tx' = [tx EXCEPT ![t] = MintNext([tx[t] EXCEPT !.w_synergy_id[tx[t].line] = tx[t].new_code,
                                                      !.updated = @ + 1, !.idx = @ + 1])]
    /\ UNCHANGED <<db_tables, lock, ghost>>

\* ------------------------------------------ POST /imports/{po_id}/explode-by-line
Item(code, po, l) == [synergy_code |-> code, synergy_id |-> NULL,
                      purchase_order_id |-> po, po_line_id |-> l]

ItemCodes(items) == {i.synergy_code : i \in items}

\* mutation: the items a line already has are not subtracted
Need_ignores_have(q, have) == q

\* mutation: one unit too few
Need_off_by_one(q, have) == Max(0, q - have - 1)

\* have = existing_counts.get(line_id, 0); need = max(0, qty - have)
Need(q, have) == Max(0, q - have)

\* mutation: "partial" whenever something was skipped
ExplodeState_partial_when_skipped(created, skipped) ==
    IF created > 0 /\ skipped = 0 THEN "done" ELSE IF skipped > 0 THEN "partial" ELSE "already"

\* state = "done" if created > 0 and skipped == 0 else ("partial" if created > 0 else "already")
ExplodeState(created, skipped) ==
    IF created > 0 /\ skipped = 0 THEN "done" ELSE IF created > 0 THEN "partial" ELSE "already"

RECURSIVE ExplodeNext_stops_at_bare_line(_)
\* mutation: a line without category or prefix ends the batch
ExplodeNext_stops_at_bare_line(r) ==
    IF r.idx > Len(r.rows)
    THEN [r EXCEPT !.state = ExplodeState(r.created, r.skipped), !.pc = "commit"]
    ELSE LET l == r.rows[r.idx]
             q == r.line_qty[l]
             need == Max(0, q - r.existing_counts[l])
             pre == r.pre_minted[l]
         IN IF category_guess[l] = NoCat \/ LinePrefix(l) = ""
            THEN [r EXCEPT !.skipped = @ + q, !.state = ExplodeState(r.created, r.skipped + q),
                           !.pc = "commit"]
            ELSE IF need <= 0
            THEN ExplodeNext_stops_at_bare_line([r EXCEPT !.idx = @ + 1, !.unit = 0, !.skipped = @ + q])
            ELSE IF r.unit >= need
            THEN ExplodeNext_stops_at_bare_line([r EXCEPT !.idx = @ + 1, !.unit = 0])
            ELSE IF pre # NULL /\ pre \notin r.existing_codes
            THEN [r EXCEPT !.line = l, !.new_code = pre, !.existing_codes = @ \cup {pre},
                           !.pc = "ex_insert"]
            ELSE [r EXCEPT !.line = l, !.prefix = LinePrefix(l),
                           !.pc = "alloc_select", !.ret = "ex_insert"]

RECURSIVE ExplodeNext_never_reuses(_)
\* mutation: the code the line carries is ignored, every unit is allocated
ExplodeNext_never_reuses(r) ==
    IF r.idx > Len(r.rows)
    THEN [r EXCEPT !.state = ExplodeState(r.created, r.skipped), !.pc = "commit"]
    ELSE LET l == r.rows[r.idx]
             q == r.line_qty[l]
             need == Max(0, q - r.existing_counts[l])
         IN IF category_guess[l] = NoCat \/ LinePrefix(l) = ""
            THEN ExplodeNext_never_reuses([r EXCEPT !.idx = @ + 1, !.unit = 0, !.skipped = @ + q])
            ELSE IF need <= 0
            THEN ExplodeNext_never_reuses([r EXCEPT !.idx = @ + 1, !.unit = 0, !.skipped = @ + q])
            ELSE IF r.unit >= need
            THEN ExplodeNext_never_reuses([r EXCEPT !.idx = @ + 1, !.unit = 0])
            ELSE [r EXCEPT !.line = l, !.prefix = LinePrefix(l),
                           !.pc = "alloc_select", !.ret = "ex_insert"]

RECURSIVE ExplodeNext(_)
\* the two for-loops of explode_by_line up to the next SQL statement; after
\* the loops the response's state is computed
ExplodeNext(r) ==
    IF r.idx > Len(r.rows)
    THEN [r EXCEPT !.state = ExplodeState(r.created, r.skipped), !.pc = "commit"]
    ELSE LET l == r.rows[r.idx]
             q == r.line_qty[l]
             need == Need(q, r.existing_counts[l])
             pre == r.pre_minted[l]
         IN IF category_guess[l] = NoCat \/ LinePrefix(l) = ""
            THEN ExplodeNext([r EXCEPT !.idx = @ + 1, !.unit = 0, !.skipped = @ + q])
            ELSE IF need <= 0
            THEN ExplodeNext([r EXCEPT !.idx = @ + 1, !.unit = 0, !.skipped = @ + q])
            ELSE IF r.unit >= need
            THEN ExplodeNext([r EXCEPT !.idx = @ + 1, !.unit = 0])
            ELSE IF pre # NULL /\ pre \notin r.existing_codes
            THEN [r EXCEPT !.line = l, !.new_code = pre, !.existing_codes = @ \cup {pre},
                           !.pc = "ex_insert"]
            ELSE [r EXCEPT !.line = l, !.prefix = LinePrefix(l),
                           !.pc = "alloc_select", !.ret = "ex_insert"]

explode_by_line(t, po) ==
    /\ po \in POs
    /\ Begin(t, [IdleTx EXCEPT !.op = "explode", !.po = po, !.pc = "ex_counts"])

\* SELECT po_line_id, COUNT(*) FROM inventory_items WHERE purchase_order_id = po GROUP BY po_line_id
ExCounts(t) ==
    /\ tx[t].pc = "ex_counts"
    /\ ~tx[t].failed
    /\ tx' = [tx EXCEPT ![t].existing_counts =
                 [l \in Lines |-> Cardinality({i \in ViewItems(t) :
                                     i.purchase_order_id = tx[t].po /\ i.po_line_id = l})],
                        ![t].pc = "ex_codes"]
    /\ UNCHANGED <<db_tables, lock, ghost>>

\* SELECT synergy_code FROM inventory_items WHERE purchase_order_id = po
ExCodes(t) ==
    /\ tx[t].pc = "ex_codes"
    /\ ~tx[t].failed
    /\ tx' = [tx EXCEPT ![t].existing_codes =
                 ItemCodes({i \in ViewItems(t) : i.purchase_order_id = tx[t].po}),
                        ![t].pc = "ex_lines"]
    /\ UNCHANGED <<db_tables, lock, ghost>>

\* SELECT pl.id, qty, category_guess, prefix, synergy_id ... WHERE purchase_order_id = po ORDER BY pl.id
ExLines(t) ==
    LET sel == {l \in ViewLines(t) : LinePO(l) = tx[t].po}
    IN /\ tx[t].pc = "ex_lines"
       /\ ~tx[t].failed
       /\ tx' = [tx EXCEPT ![t] = ExplodeNext([tx[t] EXCEPT
                     !.rows = SortLines(sel, FALSE), !.idx = 1, !.unit = 0,
                     !.line_qty = [l \in Lines |-> IF l \in sel THEN ViewQty(t, l) ELSE 0],
                     !.pre_minted = [l \in Lines |-> IF l \in sel THEN ViewSynergyId(t, l) ELSE NULL]])]
       /\ UNCHANGED <<db_tables, lock, ghost>>

\* mutation: every inserted item is committed on its own
ExInsert_autocommits(t) ==
    /\ tx[t].pc = "ex_insert"
    /\ ~tx[t].failed
    /\ IF tx[t].new_code \in ItemCodes(ViewItems(t))
       THEN Rollback(t, "raised", 500)
       ELSE /\ tx' = [tx EXCEPT ![t] = ExplodeNext([tx[t] EXCEPT !.created = @ + 1, !.unit = @ + 1])]
            /\ inventory_items' = inventory_items \cup {Item(tx[t].new_code, tx[t].po, tx[t].line)}
            /\ UNCHANGED <<id_prefix_counters, purchase_orders, po_lines, category_guess, qty, synergy_id,
                           synergy_id_events, label_inventory, lock, ghost>>

\* some other open transaction has inserted this synergy_code and not yet ended
PendingElsewhere(t, code) == \E u \in Txns \ {t} : code \in ItemCodes(tx[u].w_items)

\* INSERT INTO inventory_items (synergy_code, purchase_order_id, po_line_id, ...); created += 1
\* synergy_code carries a unique index (routes_po.py ON CONFLICT (synergy_code)):
\* a duplicate of a visible row raises, a duplicate of an uncommitted row waits
ExInsert(t) ==
    /\ tx[t].pc = "ex_insert"
    /\ ~tx[t].failed
    /\ ~PendingElsewhere(t, tx[t].new_code)
    /\ IF tx[t].new_code \in ItemCodes(ViewItems(t))
       THEN Rollback(t, "raised", 500)
       ELSE /\ tx' = [tx EXCEPT ![t] = ExplodeNext([tx[t] EXCEPT
                          !.w_items = @ \cup {Item(tx[t].new_code, tx[t].po, tx[t].line)},
                          !.created = @ + 1, !.unit = @ + 1])]
            /\ UNCHANGED <<db_tables, lock, ghost>>

\* ------------------------------------------------ PATCH /pos/lines/{line_id}
PatchCodes == {NULL, fmt_synergy("A", MaxPatch)}

\* body {synergy_id: code}: UPDATE po_lines SET synergy_id = %s WHERE id = %s RETURNING *
\* ("synergy_id" and "qty" are allowed columns; no row returned is a 404)
patch_po_line(t, l, code) ==
    /\ l \in po_lines
    /\ Begin(t, [IdleTx EXCEPT !.op = "patch", !.line = l, !.pc = "commit", !.w_synergy_id[l] = code])

\* body {qty: q}: UPDATE po_lines SET qty = %s WHERE id = %s RETURNING *
patch_po_line_qty(t, l, q) ==
    /\ l \in po_lines
    /\ Begin(t, [IdleTx EXCEPT !.op = "patch", !.line = l, !.pc = "commit", !.w_qty[l] = q])

\* ------------------------------------------------------ _get_true_max_seq
\* first pass: table = "inventory_items"
TrueMaxItems(t) ==
    /\ tx[t].pc = "tm_items"
    /\ ~tx[t].failed
    /\ tx' = [tx EXCEPT ![t].true_max_seq = Max(0, ScanItems(t, tx[t].prefix)), ![t].pc = "tm_lines"]
    /\ UNCHANGED <<db_tables, lock, ghost>>

\* second pass: table = "po_lines"; return true_max_seq
TrueMaxLines(t) ==
    /\ tx[t].pc = "tm_lines"
    /\ ~tx[t].failed
    /\ tx' = [tx EXCEPT ![t].true_max_seq = Max(tx[t].true_max_seq, ScanLines(t, tx[t].prefix)),
                        ![t].pc = tx[t].ret]
    /\ UNCHANGED <<db_tables, lock, ghost>>

\* ---------------------------------- POST /synergy-id/prefix/{prefix}/reset
prefix_reset(t, p) ==
    /\ p \in Prefixes
    /\ Begin(t, [IdleTx EXCEPT !.op = "reset", !.prefix = p, !.pc = "tm_items", !.ret = "rs_upsert"])

\* safe_next = true_max_seq + 1; INSERT ... ON CONFLICT (prefix) DO UPDATE SET next_seq = safe_next
ResetUpsert(t) ==
    LET p == tx[t].prefix
    IN /\ tx[t].pc = "rs_upsert"
       /\ ~tx[t].failed
       /\ LockFree(t, p)
       /\ lock' = [lock EXCEPT ![p] = t]
       /\ tx' = [tx EXCEPT ![t].safe_next = tx[t].true_max_seq + 1,
                           ![t].w_counters[p] = tx[t].true_max_seq + 1,
                           ![t].pc = "rs_audit"]
       /\ UNCHANGED <<db_tables, ghost>>

\* log_synergy_event(event_type="reset_to_default", ...): not guarded, a failure propagates
ResetAudit(t) ==
    /\ tx[t].pc = "rs_audit"
    /\ ~tx[t].failed
    /\ \E insert_ok \in BOOLEAN :
          IF insert_ok
          THEN /\ tx' = [tx EXCEPT ![t].w_events = Append(@,
                            log_synergy_event("reset_to_default", tx[t].prefix, tx[t].safe_next,
                                              fmt_synergy(tx[t].prefix, tx[t].safe_next),
                                              <<tx[t].safe_next>>)),
                                   ![t].pc = "commit"]
               /\ UNCHANGED <<db_tables, lock, ghost>>
          ELSE Rollback(t, "raised", 500)

\* ------------------------------------------------- POST /prefix/{prefix}/set
prefix_set(t, p, nxt, reason) ==
    /\ p \in Prefixes
    /\ nxt >= 1
    /\ Begin(t, [IdleTx EXCEPT !.op = "set", !.prefix = p, !.nxt = nxt, !.reason = reason,
                               !.pc = "set_select"])

\* SELECT next_seq FROM id_prefix_counters WHERE prefix = %s  (no FOR UPDATE);
\* old_next = int(row.get("next_seq") or 0)
SetSelect(t) ==
    /\ tx[t].pc = "set_select"
    /\ ~tx[t].failed
    /\ tx' = [tx EXCEPT ![t].old_next = ViewCounter(t, tx[t].prefix),
                        ![t].pc = "tm_items", ![t].ret = "set_upsert"]
    /\ UNCHANGED <<db_tables, lock, ghost>>

\* safe_min_next = max(true_max_seq + 1, old_next or 1)
SafeMinNext(true_max_seq, old_next) == Max(true_max_seq + 1, IF old_next = 0 THEN 1 ELSE old_next)

\* if nxt < safe_min_next: raise HTTPException(400, {"safe_next": safe_min_next})
\* else INSERT ... ON CONFLICT (prefix) DO UPDATE SET next_seq = nxt
SetUpsert(t) ==
    LET p == tx[t].prefix
        safe_min_next == SafeMinNext(tx[t].true_max_seq, tx[t].old_next)
    IN /\ tx[t].pc = "set_upsert"
       /\ ~tx[t].failed
       /\ IF tx[t].nxt < safe_min_next
          THEN /\ tx' = [tx EXCEPT ![t] = Finished([tx[t] EXCEPT !.safe_next = safe_min_next],
                                                   "rejected", 400)]
               /\ lock' = Release(t)
               /\ UNCHANGED <<db_tables, ghost>>
          ELSE /\ LockFree(t, p)
               /\ lock' = [lock EXCEPT ![p] = t]
               /\ tx' = [tx EXCEPT ![t].w_counters[p] = tx[t].nxt, ![t].pc = "set_audit"]
               /\ UNCHANGED <<db_tables, ghost>>

\* mutation: a failed audit insert is ignored and the counter change stays
SetAudit_swallows(t) ==
    /\ tx[t].pc = "set_audit"
    /\ ~tx[t].failed
    /\ tx' = [tx EXCEPT ![t].pc = "commit"]
    /\ UNCHANGED <<db_tables, lock, ghost>>

\* log_synergy_event(event_type="manual_set_next", seq=nxt, meta={old_next, new_next, reason})
SetAudit(t) ==
    /\ tx[t].pc = "set_audit"
    /\ ~tx[t].failed
    /\ \E insert_ok \in BOOLEAN :
          IF insert_ok
          THEN /\ tx' = [tx EXCEPT ![t].w_events = Append(@,
                            log_synergy_event("manual_set_next", tx[t].prefix, tx[t].nxt,
                                              fmt_synergy(tx[t].prefix, tx[t].nxt),
                                              <<tx[t].old_next, tx[t].nxt, tx[t].reason>>)),
                                   ![t].pc = "commit"]
               /\ UNCHANGED <<db_tables, lock, ghost>>
          ELSE Rollback(t, "raised", 500)

\* ----------------------------------------- POST /labels/ensure and _next_sid
\* sid = f"{prefix}-{start:04d}"
label_sid(prefix, start) == <<prefix, "-">> \o ZFill(Str(start), 4)

\* no synergyId in the request, no label of that product yet: sid = _next_sid(cur, prefix)
ensure_label(t, p) ==
    /\ p \in Prefixes
    /\ Begin(t, [IdleTx EXCEPT !.op = "label", !.prefix = p, !.pc = "lb_select"])

\* SELECT next_seq FROM id_prefix_counters WHERE prefix=%s FOR UPDATE
LabelSelect(t) ==
    LET p == tx[t].prefix
        n == ViewCounter(t, p)
    IN /\ tx[t].pc = "lb_select"
       /\ ~tx[t].failed
       /\ IF n # NoRow
          THEN /\ LockFree(t, p)
               /\ lock' = [lock EXCEPT ![p] = t]
               /\ tx' = [tx EXCEPT ![t].next_seq = n, ![t].pc = "lb_update"]
          ELSE /\ lock' = lock
               /\ tx' = [tx EXCEPT ![t].pc = "lb_insert"]
       /\ UNCHANGED <<db_tables, ghost>>

\* if row is None: INSERT INTO id_prefix_counters(prefix, next_seq) VALUES(prefix, 1)
\* (plain insert: a row committed meanwhile is a unique violation)
LabelInsert(t) ==
    LET p == tx[t].prefix
    IN /\ tx[t].pc = "lb_insert"
       /\ ~tx[t].failed
       /\ LockFree(t, p)
       /\ IF ViewCounter(t, p) # NoRow
          THEN Rollback(t, "raised", 500)
          ELSE /\ lock' = [lock EXCEPT ![p] = t]
               /\ tx' = [tx EXCEPT ![t].w_counters[p] = 1, ![t].pc = "lb_select2"]
               /\ UNCHANGED <<db_tables, ghost>>

\* the SELECT ... FOR UPDATE again, now on the transaction's own row
LabelSelect2(t) ==
    /\ tx[t].pc = "lb_select2"
    /\ ~tx[t].failed
    /\ tx' = [tx EXCEPT ![t].next_seq = ViewCounter(t, tx[t].prefix), ![t].pc = "lb_update"]
    /\ UNCHANGED <<db_tables, lock, ghost>>

\* start = int(row["next_seq"] or 1); UPDATE id_prefix_counters SET next_seq = start + 1
LabelUpdate(t) ==
    /\ tx[t].pc = "lb_update"
    /\ ~tx[t].failed
    /\ tx' = [tx EXCEPT ![t].new_code = label_sid(tx[t].prefix, tx[t].next_seq),
                        ![t].w_counters[tx[t].prefix] = tx[t].next_seq + 1,
                        ![t].pc = "lb_store"]
    /\ UNCHANGED <<db_tables, lock, ghost>>

\* INSERT INTO label_inventory (synergy_id, ...) ON CONFLICT (synergy_id) DO UPDATE
LabelStore(t) ==
    /\ tx[t].pc = "lb_store"
    /\ ~tx[t].failed
    /\ tx' = [tx EXCEPT ![t].w_labels = @ \cup {tx[t].new_code}, ![t].pc = "commit"]
    /\ UNCHANGED <<db_tables, lock, ghost>>

\* -------------------------------------------- POST /imports/{po_id}/explode_group
RECURSIVE GroupNext(_)
\* for ln in lines: for _ in range(qty): code = _get_next_synergy_code(cur, prefix)
GroupNext(r) ==
    IF r.idx > Len(r.rows) THEN [r EXCEPT !.pc = "commit"]
    ELSE IF r.unit >= r.line_qty[r.rows[r.idx]] THEN GroupNext([r EXCEPT !.idx = @ + 1, !.unit = 0])
    ELSE [r EXCEPT !.line = r.rows[r.idx], !.pc = "alloc_select", !.ret = "eg_insert"]

\* default_prefix = body.prefix or "GEN" (the requests modelled name a prefix)
explode_group(t, po, categoryId, prefix) ==
    /\ prefix \in Prefixes
    /\ Begin(t, [IdleTx EXCEPT !.op = "explode_group", !.po = po, !.prefix = prefix,
                               !.category = categoryId,
                               !.pc = IF categoryId # NoCat THEN "eg_cat" ELSE "eg_lines"])

\* SELECT prefix FROM categories WHERE id = categoryId; a non-empty prefix replaces the default
GroupCategory(t) ==
    /\ tx[t].pc = "eg_cat"
    /\ ~tx[t].failed
    /\ tx' = [tx EXCEPT ![t].prefix = IF CategoryPrefix(tx[t].category) # ""
                                      THEN CategoryPrefix(tx[t].category) ELSE @,
                        ![t].pc = "eg_lines"]
    /\ UNCHANGED <<db_tables, lock, ghost>>

\* SELECT id, qty, ... FROM po_lines WHERE purchase_order_id = po AND category_guess = categoryId
\* (or category_guess IS NULL); no ORDER BY, so the rows come in either order
GroupLines(t) ==
    LET sel == {l \in ViewLines(t) : LinePO(l) = tx[t].po /\ category_guess[l] = tx[t].category}
    IN /\ tx[t].pc = "eg_lines"
       /\ ~tx[t].failed
       /\ \E byCreated \in BOOLEAN :
             tx' = [tx EXCEPT ![t] = GroupNext([tx[t] EXCEPT
                        !.rows = SortLines(sel, byCreated), !.idx = 1, !.unit = 0,
                        !.line_qty = [l \in Lines |-> IF l \in sel THEN ViewQty(t, l) ELSE 0]])]
       /\ UNCHANGED <<db_tables, lock, ghost>>

\* INSERT INTO inventory_items (synergy_code, purchase_order_id, po_line_id, ...); created += 1
\* except Exception: con.rollback(); raise HTTPException(500)
GroupInsert(t) ==
    /\ tx[t].pc = "eg_insert"
    /\ ~tx[t].failed
    /\ ~PendingElsewhere(t, tx[t].new_code)
    /\ IF tx[t].new_code \in ItemCodes(ViewItems(t))
       THEN Rollback(t, "raised", 500)
       ELSE /\ tx' = [tx EXCEPT ![t] = GroupNext([tx[t] EXCEPT
                          !.w_items = @ \cup {Item(tx[t].new_code, tx[t].po, tx[t].line)},
                          !.created = @ + 1, !.unit = @ + 1])]
            /\ UNCHANGED <<db_tables, lock, ghost>>

\* -------------------------------------------- DELETE /purchase_orders/{po_id}
delete_purchase_order(t, po) ==
    /\ po \in POs
    /\ Begin(t, [IdleTx EXCEPT !.op = "delete_po", !.po = po, !.pc = "del_items"])

\* DELETE FROM inventory_items WHERE purchase_order_id = %s
DeleteItems(t) ==
    /\ tx[t].pc = "del_items"
    /\ ~tx[t].failed
    /\ tx' = [tx EXCEPT ![t].d_items = {i \in ViewItems(t) : i.purchase_order_id = tx[t].po},
                        ![t].pc = "del_lines"]
    /\ UNCHANGED <<db_tables, lock, ghost>>

\* DELETE FROM po_lines WHERE purchase_order_id = %s
DeleteLines(t) ==
    /\ tx[t].pc = "del_lines"
    /\ ~tx[t].failed
    /\ tx' = [tx EXCEPT ![t].d_lines = {l \in ViewLines(t) : LinePO(l) = tx[t].po},
                        ![t].pc = "del_po"]
    /\ UNCHANGED <<db_tables, lock, ghost>>

\* DELETE FROM purchase_orders WHERE id = %s; rowcount == 0 raises 404
DeletePO(t) ==
    /\ tx[t].pc = "del_po"
    /\ ~tx[t].failed
    /\ IF tx[t].po \in purchase_orders
       THEN /\ tx' = [tx EXCEPT ![t].d_pos = {tx[t].po}, ![t].pc = "commit"]
            /\ UNCHANGED <<db_tables, lock, ghost>>
       ELSE Rollback(t, "rejected", 404)

_get_next_synergy_code(t) ==
    \/ AllocSelect(t)
    \/ AllocScanItems(t)
    \/ AllocScanLines(t)
    \/ AllocUpsert(t)
    \/ AllocAudit(t)

\* --------------------------------------------- POST /pos/{po_id}/synergy_preview
\* f"{prefix}-{str(start + i).zfill(5)}"
PreviewCode(prefix, n) == <<prefix, "-">> \o ZFill(Str(n), 5)

\* one entry of "previews"; note is "" when the entry has codes
PreviewEntry(l, prefix, q, codes, note) ==
    [line_id |-> l, prefix |-> prefix, qty |-> q, codes |-> codes, note |-> note]

\* mutation: the local counter stays where the block began
PreviewAdvance_stays(start, q) == start - 1

\* seq_by_prefix[prefix] = start + qty - 1
PreviewAdvance(start, q) == start + q - 1

RECURSIVE PreviewNext_bare_line_ends(_)
\* mutation: a line without prefix ends the loop
PreviewNext_bare_line_ends(r) ==
    IF r.idx > Len(r.rows) THEN [r EXCEPT !.pc = "commit"]
    ELSE LET l == r.rows[r.idx]
             q == r.line_qty[l]
             prefix == LinePrefix(l)
         IN IF prefix = ""
            THEN [r EXCEPT !.pc = "commit",
                     !.previews = Append(@, PreviewEntry(l, "", q, <<>>, "No category prefix; cannot preview."))]
            ELSE IF r.seq_by_prefix[prefix] = NotSeeded
            THEN [r EXCEPT !.prefix = prefix, !.true_max_seq = 0, !.pc = "pv_scan_items"]
            ELSE LET start == r.seq_by_prefix[prefix] + 1
                     codes == [i \in 1..q |-> PreviewCode(prefix, start + i - 1)]
                 IN PreviewNext_bare_line_ends([r EXCEPT !.idx = @ + 1,
                        !.seq_by_prefix[prefix] = PreviewAdvance(start, q),
                        !.previews = Append(@, PreviewEntry(l, prefix, q, codes, ""))])

RECURSIVE PreviewNext(_)
\* for r in rows: up to the next SQL statement (the scan of a prefix not yet
\* in seq_by_prefix) or the end of the loop
PreviewNext(r) ==
    IF r.idx > Len(r.rows) THEN [r EXCEPT !.pc = "commit"]
    ELSE LET l == r.rows[r.idx]
             q == r.line_qty[l]
             prefix == LinePrefix(l)
         IN IF prefix = ""
            THEN PreviewNext([r EXCEPT !.idx = @ + 1,
                     !.previews = Append(@, PreviewEntry(l, "", q, <<>>, "No category prefix; cannot preview."))])
            ELSE IF r.seq_by_prefix[prefix] = NotSeeded
            THEN [r EXCEPT !.prefix = prefix, !.true_max_seq = 0, !.pc = "pv_scan_items"]
            ELSE LET start == r.seq_by_prefix[prefix] + 1
                     codes == [i \in 1..q |-> PreviewCode(prefix, start + i - 1)]
                 IN PreviewNext([r EXCEPT !.idx = @ + 1,
                        !.seq_by_prefix[prefix] = PreviewAdvance(start, q),
                        !.previews = Append(@, PreviewEntry(l, prefix, q, codes, ""))])

\* if not line_ids: return {"previews": [], ...} before any connection is taken
synergy_preview(t, po, line_ids) ==
    /\ line_ids \subseteq Lines
    /\ Begin(t, IF line_ids = {}
                THEN [IdleTx EXCEPT !.op = "preview", !.po = po, !.pc = "done",
                                    !.outcome = "no_db", !.status = 200]
                ELSE [IdleTx EXCEPT !.op = "preview", !.po = po, !.line_ids = line_ids,
                                    !.pc = "pv_select"])

\* SELECT pl.id, pl.qty, c.prefix FROM po_lines ... WHERE purchase_order_id = po AND id = ANY(line_ids)
\*   ORDER BY COALESCE(created_at, NOW()) ASC, id ASC
PreviewSelect(t) ==
    LET sel == {l \in ViewLines(t) : LinePO(l) = tx[t].po /\ l \in tx[t].line_ids}
    IN /\ tx[t].pc = "pv_select"
       /\ ~tx[t].failed
       /\ tx' = [tx EXCEPT ![t] = PreviewNext([tx[t] EXCEPT
                     !.rows = SortLines(sel, TRUE), !.idx = 1,
                     !.line_qty = [l \in Lines |-> IF l \in sel THEN ViewQty(t, l) ELSE 0]])]
       /\ UNCHANGED <<db_tables, lock, ghost>>

\* mutation: the scan takes the counter lock of the prefix
PreviewScanItems_locks(t) ==
    /\ tx[t].pc = "pv_scan_items"
    /\ ~tx[t].failed
    /\ LockFree(t, tx[t].prefix)
    /\ lock' = [lock EXCEPT ![tx[t].prefix] = t]
    /\ tx' = [tx EXCEPT ![t].true_max_seq = Max(0, ScanItems(t, tx[t].prefix)),
                        ![t].pc = "pv_scan_lines"]
    /\ UNCHANGED <<db_tables, ghost>>

\* max_seq_for_prefix, first pass: table = "inventory_items"
PreviewScanItems(t) ==
    /\ tx[t].pc = "pv_scan_items"
    /\ ~tx[t].failed
    /\ tx' = [tx EXCEPT ![t].true_max_seq = Max(0, ScanItems(t, tx[t].prefix)),
                        ![t].pc = "pv_scan_lines"]
    /\ UNCHANGED <<db_tables, lock, ghost>>

\* second pass: table = "po_lines"; seq_by_prefix[prefix] = max_seq; back to the loop
PreviewScanLines(t) ==
    /\ tx[t].pc = "pv_scan_lines"
    /\ ~tx[t].failed
    /\ \E m \in {Max(tx[t].true_max_seq, ScanLines(t, tx[t].prefix))} :
       \E r \in {[tx[t] EXCEPT !.true_max_seq = m, !.seq_by_prefix[tx[t].prefix] = m]} :
          tx' = [tx EXCEPT ![t] = PreviewNext(r)]
    /\ UNCHANGED <<db_tables, lock, ghost>>

\* ------------------------------------------------------------ specifications
\* two connections, concurrent take requests
NextTake ==
    \E t \in Txns :
        \/ \E p \in Prefixes : prefix_take(t, p)
        \/ AllocSelect(t)
        \/ AllocScanItems(t)
        \/ AllocScanLines(t)
        \/ AllocUpsert(t)
        \/ AllocAudit(t)
        \/ Commit(t)
        \/ Abort(t)

InitTake == Init /\ category_guess = [l \in Lines |-> "cA"]

SpecTake == InitTake /\ [][NextTake]_vars

\* one connection: requests run one after another
NextSeq ==
    \E t \in {1} :
        \/ prefix_take(t, "A")
        \/ \E ids \in {{}, {2}}, ow \in BOOLEAN : mint_synergy(t, 1, ids, ow)
        \/ \E po \in POs : explode_by_line(t, po)
        \/ \E c \in PatchCodes : patch_po_line(t, 2, c)
        \/ \E q \in 1..MaxQty : patch_po_line_qty(t, 2, q)
        \/ AllocSelect(t)
        \/ AllocScanItems(t)
        \/ AllocScanLines(t)
        \/ AllocUpsert(t)
        \/ AllocAudit(t)
        \/ MintClear(t)
        \/ MintSelect(t)
        \/ MintUpdate(t)
        \/ ExCounts(t)
        \/ ExCodes(t)
        \/ ExLines(t)
        \/ ExInsert(t)
        \/ Commit(t)
        \/ InFailedSqlTransaction(t)
        \/ Abort(t)

Spec == Init /\ [][NextSeq]_vars

\* one connection: every path that moves a counter, and purchase order deletion
NextAdmin ==
    \E t \in {2} :
        \/ \E p \in Prefixes : prefix_take(t, p)
        \/ \E ow \in BOOLEAN : mint_synergy(t, 1, {}, ow)
        \/ explode_by_line(t, 1)
        \/ \E c \in {"cA", NoCat} : explode_group(t, 1, c, "A")
        \/ prefix_reset(t, "A")
        \/ \E n \in 1..MaxSeq : prefix_set(t, "A", n, "printed labels offline")
        \/ ensure_label(t, "A")
        \/ delete_purchase_order(t, 1)
        \/ AllocSelect(t)
        \/ AllocScanItems(t)
        \/ AllocScanLines(t)
        \/ AllocUpsert(t)
        \/ AllocAudit(t)
        \/ MintClear(t)
        \/ MintSelect(t)
        \/ MintUpdate(t)
        \/ ExCounts(t)
        \/ ExCodes(t)
        \/ ExLines(t)
        \/ ExInsert(t)
        \/ GroupCategory(t)
        \/ GroupLines(t)
        \/ GroupInsert(t)
        \/ TrueMaxItems(t)
        \/ TrueMaxLines(t)
        \/ ResetUpsert(t)
        \/ ResetAudit(t)
        \/ SetSelect(t)
        \/ SetUpsert(t)
        \/ SetAudit(t)
        \/ LabelSelect(t)
        \/ LabelInsert(t)
        \/ LabelSelect2(t)
        \/ LabelUpdate(t)
        \/ LabelStore(t)
        \/ DeleteItems(t)
        \/ DeleteLines(t)
        \/ DeletePO(t)
        \/ Commit(t)
        \/ InFailedSqlTransaction(t)
        \/ Abort(t)

InitAdmin == Init /\ category_guess = [l \in Lines |-> IF l = 1 THEN NoCat ELSE "cA"]

SpecAdmin == InitAdmin /\ [][NextAdmin]_vars

\* one connection, the worked example: a prefix without counter row and
\* without codes, two lines of one purchase order with qty 2 (created first)
\* and qty 3; preview, mint and explode requests one after another
NextExample ==
    \E t \in {1} :
        \/ synergy_preview(t, 1, {1, 2})
        \/ mint_synergy(t, 1, {}, FALSE)
        \/ explode_by_line(t, 1)
        \/ PreviewSelect(t)
        \/ PreviewScanItems(t)
        \/ PreviewScanLines(t)
        \/ AllocSelect(t)
        \/ AllocScanItems(t)
        \/ AllocScanLines(t)
        \/ AllocUpsert(t)
        \/ AllocAudit(t)
        \/ MintSelect(t)
        \/ MintUpdate(t)
        \/ ExCounts(t)
        \/ ExCodes(t)
        \/ ExLines(t)
        \/ ExInsert(t)
        \/ Commit(t)
        \/ InFailedSqlTransaction(t)
        \/ Abort(t)

InitExample ==
    /\ id_prefix_counters = [p \in Prefixes |-> NoRow]
    /\ purchase_orders = POs
    /\ po_lines = Lines
    /\ category_guess = [l \in Lines |-> "cA"]
    /\ qty = [l \in Lines |-> IF l = 2 THEN 2 ELSE IF l = 1 THEN 3 ELSE 1]
    /\ synergy_id = [l \in Lines |-> NULL]
    /\ inventory_items = {}
    /\ synergy_id_events = <<>>
    /\ label_inventory = {}
    /\ lock = [p \in Prefixes |-> NoTx]
    /\ tx = [t \in Txns |-> IdleTx]
    /\ returned = <<>>
    /\ hist = [counters |-> id_prefix_counters, lines |-> po_lines, qty |-> qty,
               synergy_id |-> synergy_id, items |-> inventory_items,
               events |-> synergy_id_events, prev_exploded |-> 0, previewed |-> {},
               prev_previews |-> <<>>, plan |-> NoPlan, prev_mint |-> NoMint, prev_peek |-> NoPeek]
    /\ limit = [events |-> ExampleEvents, seq |-> ExampleSeq]

SpecExample == InitExample /\ [][NextExample]_vars

\* body.reason of POST /prefix/{prefix}/set
Reasons == {"printed labels offline", "recount"}

\* one connection: counter administration between requests that make codes
NextSet ==
    \E t \in {1} :
        \/ prefix_take(t, "A")
        \/ explode_by_line(t, 1)
        \/ \E c \in PatchCodes : patch_po_line(t, 2, c)
        \/ prefix_reset(t, "A")
        \/ \E n \in 1..MaxSeq, reason \in Reasons : prefix_set(t, "A", n, reason)
        \/ AllocSelect(t)
        \/ AllocScanItems(t)
        \/ AllocScanLines(t)
        \/ AllocUpsert(t)
        \/ AllocAudit(t)
        \/ ExCounts(t)
        \/ ExCodes(t)
        \/ ExLines(t)
        \/ ExInsert(t)
        \/ TrueMaxItems(t)
        \/ TrueMaxLines(t)
        \/ ResetUpsert(t)
        \/ ResetAudit(t)
        \/ SetSelect(t)
        \/ SetUpsert(t)
        \/ SetAudit(t)
        \/ Commit(t)
        \/ InFailedSqlTransaction(t)
        \/ Abort(t)

SpecSet == InitTake /\ [][NextSet]_vars

\* one connection: previews between requests that change codes and quantities;
\* either line of purchase order 1 may lack a category or a prefix
NextPreview ==
    \E t \in {1} :
        \/ \E ids \in {{}, {1}, {2}, {1, 2}, {1, 2, 3}} : synergy_preview(t, 1, ids)
        \/ explode_by_line(t, 1)
        \/ \E c \in PatchCodes : patch_po_line(t, 2, c)
        \/ \E q \in 1..MaxQty : patch_po_line_qty(t, 2, q)
        \/ PreviewSelect(t)
        \/ PreviewScanItems(t)
        \/ PreviewScanLines(t)
        \/ AllocSelect(t)
        \/ AllocScanItems(t)
        \/ AllocScanLines(t)
        \/ AllocUpsert(t)
        \/ AllocAudit(t)
        \/ ExCounts(t)
        \/ ExCodes(t)
        \/ ExLines(t)
        \/ ExInsert(t)
        \/ Commit(t)
        \/ InFailedSqlTransaction(t)
        \/ Abort(t)

InitPreview ==
    /\ id_prefix_counters = [p \in Prefixes |-> NoRow]
    /\ purchase_orders = POs
    /\ po_lines = Lines
    /\ category_guess \in {f \in [Lines -> Categories \cup {NoCat}] :
                              f[3] = "cA" /\ f[2] \in {"cA", "cX", NoCat}}
    /\ qty = [l \in Lines |-> 1]
    /\ synergy_id = [l \in Lines |-> NULL]
    /\ inventory_items = {}
    /\ synergy_id_events = <<>>
    /\ label_inventory = {}
    /\ lock = [p \in Prefixes |-> NoTx]
    /\ tx = [t \in Txns |-> IdleTx]
    /\ returned = <<>>
    /\ hist = [counters |-> id_prefix_counters, lines |-> po_lines, qty |-> qty,
               synergy_id |-> synergy_id, items |-> inventory_items,
               events |-> synergy_id_events, prev_exploded |-> 0, previewed |-> {},
               prev_previews |-> <<>>, plan |-> NoPlan, prev_mint |-> NoMint, prev_peek |-> NoPeek]
    /\ limit = [events |-> MaxEvents, seq |-> MaxSeq]

SpecPreview == InitPreview /\ [][NextPreview]_vars

\* one connection: mint with and without overwrite, next to the requests that
\* put codes on lines or move a counter by other means
NextRemint ==
    \E t \in {1} :
        \/ prefix_take(t, "A")
        \/ \E po \in POs, ids \in {{}, {2}, {3}}, ow \in BOOLEAN : mint_synergy(t, po, ids, ow)
        \/ \E c \in PatchCodes : patch_po_line(t, 1, c)
        \/ prefix_reset(t, "A")
        \/ AllocSelect(t)
        \/ AllocScanItems(t)
        \/ AllocScanLines(t)
        \/ AllocUpsert(t)
        \/ AllocAudit(t)
        \/ MintClear(t)
        \/ MintSelect(t)
        \/ MintUpdate(t)
        \/ TrueMaxItems(t)
        \/ TrueMaxLines(t)
        \/ ResetUpsert(t)
        \/ ResetAudit(t)
        \/ Commit(t)
        \/ InFailedSqlTransaction(t)
        \/ Abort(t)

SpecRemint == Init /\ [][NextRemint]_vars

\* two connections: takes on one while the other sets or resets the counter
NextAdminConc ==
    \/ prefix_take(1, "A")
    \/ AllocSelect(1)
    \/ AllocScanItems(1)
    \/ AllocScanLines(1)
    \/ AllocUpsert(1)
    \/ AllocAudit(1)
    \/ Commit(1)
    \/ Abort(1)
    \/ \E t \in {2} :
          \/ \E n \in 1..MaxSeq, reason \in Reasons : prefix_set(t, "A", n, reason)
          \/ prefix_reset(t, "A")
          \/ SetSelect(t)
          \/ TrueMaxItems(t)
          \/ TrueMaxLines(t)
          \/ SetUpsert(t)
          \/ SetAudit(t)
          \/ ResetUpsert(t)
          \/ ResetAudit(t)
          \/ Commit(t)
          \/ Abort(t)

SpecAdminConc == InitTake /\ [][NextAdminConc]_vars

\* two connections, each taking, minting and exploding
NextMintConc ==
    \E t \in Txns :
        \/ prefix_take(t, "A")
        \/ \E po \in POs : mint_synergy(t, po, {}, FALSE)
        \/ \E po \in POs : explode_by_line(t, po)
        \/ AllocSelect(t)
        \/ AllocScanItems(t)
        \/ AllocScanLines(t)
        \/ AllocUpsert(t)
        \/ AllocAudit(t)
        \/ MintSelect(t)
        \/ MintUpdate(t)
        \/ ExCounts(t)
        \/ ExCodes(t)
        \/ ExLines(t)
        \/ ExInsert(t)
        \/ Commit(t)
        \/ InFailedSqlTransaction(t)
        \/ Abort(t)

SpecMintConc == InitTake /\ [][NextMintConc]_vars

\* the prefix each of the two clients works on
PrefixOf(t) == IF t = 1 THEN "A" ELSE "B"

\* what connection t does next inside a take, set or reset
CounterStep(t) ==
    \/ AllocSelect(t)
    \/ AllocScanItems(t)
    \/ AllocScanLines(t)
    \/ AllocUpsert(t)
    \/ AllocAudit(t)
    \/ SetSelect(t)
    \/ TrueMaxItems(t)
    \/ TrueMaxLines(t)
    \/ SetUpsert(t)
    \/ SetAudit(t)
    \/ ResetUpsert(t)
    \/ ResetAudit(t)
    \/ Commit(t)

\* two connections, each on its own prefix: takes and resets of A next to takes and sets of B
NextIsolation ==
    \E t \in Txns :
        \/ prefix_take(t, PrefixOf(t))
        \/ (t = 2 /\ \E n \in {1, MaxSeq} : prefix_set(t, PrefixOf(t), n, "recount"))
        \/ (t = 1 /\ prefix_reset(t, PrefixOf(t)))
        \/ AllocSelect(t)
        \/ AllocScanItems(t)
        \/ AllocScanLines(t)
        \/ AllocUpsert(t)
        \/ AllocAudit(t)
        \/ SetSelect(t)
        \/ TrueMaxItems(t)
        \/ TrueMaxLines(t)
        \/ SetUpsert(t)
        \/ SetAudit(t)
        \/ ResetUpsert(t)
        \/ ResetAudit(t)
        \/ Commit(t)
        \/ Abort(t)

SpecIsolation == InitTake /\ [][NextIsolation]_vars

\* one connection: preview, mint and explode of purchase order 1, and takes
\* that move the counter ahead of the stored codes
NextPlan ==
    \E t \in {1} :
        \/ prefix_take(t, "A")
        \/ synergy_preview(t, 1, {1, 2})
        \/ mint_synergy(t, 1, {}, FALSE)
        \/ explode_by_line(t, 1)
        \/ PreviewSelect(t)
        \/ PreviewScanItems(t)
        \/ PreviewScanLines(t)
        \/ AllocSelect(t)
        \/ AllocScanItems(t)
        \/ AllocScanLines(t)
        \/ AllocUpsert(t)
        \/ AllocAudit(t)
        \/ MintSelect(t)
        \/ MintUpdate(t)
        \/ ExCounts(t)
        \/ ExCodes(t)
        \/ ExLines(t)
        \/ ExInsert(t)
        \/ Commit(t)
        \/ InFailedSqlTransaction(t)
        \/ Abort(t)

InitPlan ==
    /\ id_prefix_counters = [p \in Prefixes |-> NoRow]
    /\ purchase_orders = POs
    /\ po_lines = Lines
    /\ category_guess = [l \in Lines |-> "cA"]
    /\ qty \in {q \in [Lines -> 1..MaxQty] : q[1] = 1 /\ q[3] = 1}
    /\ synergy_id = [l \in Lines |-> NULL]
    /\ inventory_items = {}
    /\ synergy_id_events = <<>>
    /\ label_inventory = {}
    /\ lock = [p \in Prefixes |-> NoTx]
    /\ tx = [t \in Txns |-> IdleTx]
    /\ returned = <<>>
    /\ hist = [counters |-> id_prefix_counters, lines |-> po_lines, qty |-> qty,
               synergy_id |-> synergy_id, items |-> inventory_items,
               events |-> synergy_id_events, prev_exploded |-> 0, previewed |-> {},
               prev_previews |-> <<>>, plan |-> NoPlan, prev_mint |-> NoMint, prev_peek |-> NoPeek]
    /\ limit = [events |-> ExampleEvents, seq |-> ExampleSeq]

SpecPlan == InitPlan /\ [][NextPlan]_vars

\* one connection: the allocation paths that create a missing counter row,
\* on tables where a line may already carry a code
NextSeed ==
    \E t \in {1} :
        \/ \E c \in PatchCodes : patch_po_line(t, 2, c)
        \/ prefix_take(t, "A")
        \/ ensure_label(t, "A")
        \/ AllocSelect(t)
        \/ AllocScanItems(t)
        \/ AllocScanLines(t)
        \/ AllocUpsert(t)
        \/ AllocAudit(t)
        \/ LabelSelect(t)
        \/ LabelInsert(t)
        \/ LabelSelect2(t)
        \/ LabelUpdate(t)
        \/ LabelStore(t)
        \/ Commit(t)
        \/ Abort(t)

SpecSeed == InitTake /\ [][NextSeed]_vars

\* connection t has sent a statement that cannot return before u ends: the
\* SELECT ... FOR UPDATE of an existing counter row or the counter upsert while
\* u holds the row lock of the prefix, or the INSERT of an item code that u has
\* inserted and not yet committed
WaitsFor(t, u) ==
    /\ t # u
    /\ Active(t)
    /\ ~tx[t].failed
    /\ \/ /\ \/ tx[t].pc = "alloc_upsert"
             \/ tx[t].pc = "alloc_select" /\ ViewCounter(t, tx[t].prefix) # NoRow
          /\ lock[tx[t].prefix] = u
       \/ /\ tx[t].pc \in {"ex_insert", "eg_insert"}
          /\ tx[t].new_code \in ItemCodes(tx[u].w_items)

\* PostgreSQL's deadlock detector: when the waits form a cycle, one of the
\* waiting statements raises "deadlock detected"; db() rolls back and re-raises
DeadlockDetected(t) ==
    /\ \E u \in Txns : WaitsFor(t, u) /\ WaitsFor(u, t)
    /\ Rollback(t, "raised", 500)

\* two connections, each minting and exploding purchase order 1, whose two
\* lines have different prefixes
NextLockOrder ==
    \E t \in Txns :
        \/ mint_synergy(t, 1, {}, FALSE)
        \/ explode_by_line(t, 1)
        \/ AllocSelect(t)
        \/ AllocScanItems(t)
        \/ AllocScanLines(t)
        \/ AllocUpsert(t)
        \/ AllocAudit(t)
        \/ MintSelect(t)
        \/ MintUpdate(t)
        \/ ExCounts(t)
        \/ ExCodes(t)
        \/ ExLines(t)
        \/ ExInsert(t)
        \/ Commit(t)
        \/ InFailedSqlTransaction(t)
        \/ DeadlockDetected(t)

InitLockOrder == Init /\ category_guess = [l \in Lines |-> IF l = 1 THEN "cB" ELSE "cA"]

SpecLockOrder == InitLockOrder /\ [][NextLockOrder]_vars

\* one connection: every path that renders a code for a client, the allocator
\* (take), the preview, the label path and the legacy peek
NextFormat ==
    \E t \in {1} :
        \/ prefix_take(t, "A")
        \/ ensure_label(t, "A")
        \/ legacy_prefix_peek(t, "A")
        \/ synergy_preview(t, 1, {1, 2})
        \/ AllocSelect(t)
        \/ AllocScanItems(t)
        \/ AllocScanLines(t)
        \/ AllocUpsert(t)
        \/ AllocAudit(t)
        \/ LabelSelect(t)
        \/ LabelInsert(t)
        \/ LabelSelect2(t)
        \/ LabelUpdate(t)
        \/ LabelStore(t)
        \/ LegacyPeekSelect(t)
        \/ PreviewSelect(t)
        \/ PreviewScanItems(t)
        \/ PreviewScanLines(t)
        \/ Commit(t)
        \/ Abort(t)

SpecFormat == InitTake /\ [][NextFormat]_vars

\* one connection: peeks of both applications between takes, on tables where a
\* line may carry a code and the counter row may be missing
NextPeek ==
    \E t \in {1} :
        \/ prefix_peek(t, "A")
        \/ legacy_prefix_peek(t, "A")
        \/ prefix_take(t, "A")
        \/ \E c \in PatchCodes : patch_po_line(t, 2, c)
        \/ PeekCall(t)
        \/ LegacyPeekSelect(t)
        \/ AllocSelect(t)
        \/ AllocScanItems(t)
        \/ AllocScanLines(t)
        \/ AllocUpsert(t)
        \/ AllocAudit(t)
        \/ Commit(t)

SpecPeek == InitTake /\ [][NextPeek]_vars

\* what connection t does next inside a preview
PreviewStep(t) ==
    \/ PreviewSelect(t)
    \/ PreviewScanItems(t)
    \/ PreviewScanLines(t)
    \/ Commit(t)

\* what connection t does next inside a take, mint or explode
WriterStep(t) ==
    \/ AllocSelect(t)
    \/ AllocScanItems(t)
    \/ AllocScanLines(t)
    \/ AllocUpsert(t)
    \/ AllocAudit(t)
    \/ MintSelect(t)
    \/ MintUpdate(t)
    \/ ExCounts(t)
    \/ ExCodes(t)
    \/ ExLines(t)
    \/ ExInsert(t)
    \/ Commit(t)

\* two connections: previews on one while the other takes, mints and explodes
NextPreviewConc ==
    \/ synergy_preview(1, 1, {1, 2})
    \/ PreviewSelect(1)
    \/ PreviewScanItems(1)
    \/ PreviewScanLines(1)
    \/ Commit(1)
    \/ Abort(1)
    \/ \E t \in {2} :
          \/ prefix_take(t, "A")
          \/ mint_synergy(t, 1, {}, FALSE)
          \/ explode_by_line(t, 1)
          \/ AllocSelect(t)
          \/ AllocScanItems(t)
          \/ AllocScanLines(t)
          \/ AllocUpsert(t)
          \/ AllocAudit(t)
          \/ MintSelect(t)
          \/ MintUpdate(t)
          \/ ExCounts(t)
          \/ ExCodes(t)
          \/ ExLines(t)
          \/ ExInsert(t)
          \/ Commit(t)
          \/ InFailedSqlTransaction(t)
          \/ Abort(t)

SpecPreviewConc == InitTake /\ [][NextPreviewConc]_vars

\* ----------------------------------------------------------------- claims
Done(t) == tx[t].pc = "done"

Committed(t) == Done(t) /\ tx[t].outcome = "committed"

ItemsOfLine(items, l) == {i \in items : i.po_line_id = l}

Resolved(l) == category_guess[l] # NoCat /\ CategoryPrefix(category_guess[l]) # ""

RECURSIVE Sum(_, _)
Sum(f, S) == IF S = {} THEN 0 ELSE LET x == CHOOSE y \in S : TRUE IN f[x] + Sum(f, S \ {x})

\* C1 - Uniqueness: the codes returned by _get_next_synergy_code to concurrent
\* transactions that commit are pairwise distinct, whether or not the counter
\* row of the prefix existed beforehand.
C1_Uniqueness == \A i, j \in 1..Len(returned) : i # j => returned[i] # returned[j]

\* the sequence number a code carries, as the recovery scan parses it
SeqOfCode(code) == ToInt(SplitPart2(code))

\* the sequence numbers of prefix p present in po_lines.synergy_id or inventory_items.synergy_code
UsedSeqs(p) ==
    {SeqOfCode(c) : c \in {x \in {synergy_id[l] : l \in po_lines} \cup ItemCodes(inventory_items) : Like(x, p)}}

\* C2 - Monotonicity: in every committed state, a counter row of prefix P has
\* next_seq strictly greater than every sequence number of P in the line table
\* or the item table.
C2_Monotonic ==
    \A p \in Prefixes : id_prefix_counters[p] # NoRow => \A n \in UsedSeqs(p) : id_prefix_counters[p] > n

\* C3 - No reuse: over a sequential history of committed requests the allocator
\* never returns a code it returned earlier.
C3_NoReuse == \A j \in 1..Len(returned) : \A i \in 1..(j - 1) : returned[i] # returned[j]

\* C3 (amended) - no reuse as long as no reset_to_default has been committed
C3_NoReuseWithoutReset ==
    (\A k \in 1..Len(synergy_id_events) : synergy_id_events[k].event_type # "reset_to_default")
        => \A j \in 1..Len(returned) : \A i \in 1..Len(returned) : i < j => returned[i] # returned[j]

C3_Witness ==
    /\ Len(returned) >= 2
    /\ \A k \in 1..Len(synergy_id_events) : synergy_id_events[k].event_type # "reset_to_default"
    /\ 1 \notin purchase_orders
    /\ \E k \in 1..Len(returned) :
          returned[k] \notin ({synergy_id[l] : l \in po_lines} \cup ItemCodes(inventory_items))

\* the highest sequence number of prefix p in the tables as the request found them
TrueMaxBefore(p) ==
    SetMax({SeqOfCode(c) : c \in {x \in {hist.synergy_id[l] : l \in hist.lines}
                                          \cup ItemCodes(hist.items) : Like(x, p)}})

PastLockingRead(t, p) == Active(t) /\ p \in tx[t].locked_read

\* C5 - Serialization: once one transaction has performed the locking read of
\* prefix P's counter, no other transaction is past its own read of P's
\* counter (or computing a seed for P) before the first one has ended.
C5_Serialized ==
    \A t, u \in Txns : \A p \in Prefixes :
        t # u => ~(PastLockingRead(t, p) /\ PastLockingRead(u, p))

\* C6 - Rollback atomicity: when a request that called the allocator ends
\* without committing, the committed counters, line codes, items and audit
\* events are exactly what they were when the request began.
C6_RollbackAtomic ==
    (Done(1) /\ tx[1].outcome # "committed" /\ tx[1].n_alloc >= 1) =>
        /\ id_prefix_counters = hist.counters
        /\ synergy_id = hist.synergy_id
        /\ inventory_items = hist.items
        /\ synergy_id_events = hist.events

C6_Witness == Done(1) /\ tx[1].op = "explode" /\ tx[1].outcome = "raised" /\ tx[1].n_alloc >= 2

\* C7 - Audit failure never blocks allocation: when the audit insert fails
\* inside the allocator, the request still answers 200 and its transaction
\* (counter advance and later statements) still commits.
C7_AuditFailureHarmless ==
    \A t \in Txns : (Done(t) /\ tx[t].audit_failed) => (tx[t].outcome = "committed" /\ tx[t].status = 200)

\* C8 - Idempotent explosion: an explode of a purchase order that directly
\* follows a committed explode of the same purchase order creates nothing and
\* leaves the number of items of every line as the first call left it.
C8_IdempotentExplode ==
    (Committed(1) /\ tx[1].op = "explode" /\ hist.prev_exploded = tx[1].po) =>
        /\ tx[1].created = 0
        /\ \A l \in Lines : Cardinality(ItemsOfLine(inventory_items, l))
                            = Cardinality(ItemsOfLine(hist.items, l))

C8_Witness ==
    /\ Committed(1) /\ tx[1].op = "explode" /\ hist.prev_exploded = tx[1].po
    /\ \E l \in Lines : LinePO(l) = tx[1].po /\ Cardinality(ItemsOfLine(inventory_items, l)) >= 2

\* what the request found when it began
HaveBefore(l) == Cardinality(ItemsOfLine(hist.items, l))

NeedBefore(l) == IF hist.qty[l] > HaveBefore(l) THEN hist.qty[l] - HaveBefore(l) ELSE 0

LinesBefore(po) == {l \in hist.lines : LinePO(l) = po}

\* C9 - Explosion delta: a committed explode leaves every line that has a
\* category and prefix with exactly max(0, qty - have) more items than before,
\* keeps every earlier item as it was, reports created = the sum of need, and
\* counts the qty of every line with need = 0 (or without prefix) in skipped.
C9_ExplosionDelta ==
    (Committed(1) /\ tx[1].op = "explode") =>
        LET ls == LinesBefore(tx[1].po)
            res == {l \in ls : Resolved(l)}
            idle == {l \in ls : ~Resolved(l) \/ NeedBefore(l) = 0}
        IN /\ \A l \in res : Cardinality(ItemsOfLine(inventory_items, l)) = HaveBefore(l) + NeedBefore(l)
           /\ hist.items \subseteq inventory_items
           /\ tx[1].created = Sum([l \in Lines |-> NeedBefore(l)], res)
           /\ tx[1].skipped = Sum(hist.qty, idle)

C9_Witness ==
    /\ Committed(1) /\ tx[1].op = "explode"
    /\ \E l \in LinesBefore(tx[1].po) :
          Resolved(l) /\ HaveBefore(l) >= 1 /\ NeedBefore(l) >= 1
    /\ \E l \in LinesBefore(tx[1].po) : Resolved(l) /\ NeedBefore(l) = 0

\* C10 - Partial-category tolerance: in a committed explode a line without
\* category or prefix gets no item, no allocated code goes to it, its qty is
\* in skipped, and every sibling line with a prefix ends with at least qty items.
C10_PartialCategory ==
    (Committed(1) /\ tx[1].op = "explode") =>
        LET ls == LinesBefore(tx[1].po)
            bare == {l \in ls : ~Resolved(l)}
        IN /\ \A l \in bare : ItemsOfLine(inventory_items, l) = ItemsOfLine(hist.items, l)
           /\ \A k \in 1..Len(tx[1].got) :
                 \E i \in inventory_items \ hist.items :
                    i.synergy_code = tx[1].got[k] /\ Resolved(i.po_line_id)
           /\ tx[1].skipped >= Sum(hist.qty, bare)
           /\ \A l \in ls \ bare : Cardinality(ItemsOfLine(inventory_items, l)) >= hist.qty[l]

C10_Witness ==
    /\ Committed(1) /\ tx[1].op = "explode"
    /\ \E l, m \in LinesBefore(tx[1].po) :
          /\ ~Resolved(l) /\ Resolved(m) /\ l < m
          /\ Cardinality(ItemsOfLine(inventory_items, m)) > HaveBefore(m)
          /\ hist.qty[m] >= 2

\* the items a request added to the committed table
NewItems == inventory_items \ hist.items

\* the lines of the exploded PO for which the loop creates units, in the
\* state the request found
ExplodedLines(po) == {l \in LinesBefore(po) : Resolved(l) /\ NeedBefore(l) >= 1}

\* line l carries a code that no item has, and no line handled before it in
\* the same call carries the same code
CarriesFreeCode(po, l) ==
    /\ l \in ExplodedLines(po)
    /\ hist.synergy_id[l] # NULL
    /\ hist.synergy_id[l] \notin ItemCodes(hist.items)
    /\ \A m \in ExplodedLines(po) : m < l => hist.synergy_id[m] # hist.synergy_id[l]

\* how many of the codes in sequence s belong to prefix p
RECURSIVE CountOf(_, _)
CountOf(s, p) == IF s = <<>> THEN 0 ELSE (IF Like(Head(s), p) THEN 1 ELSE 0) + CountOf(Tail(s), p)

\* C11 - Pre-minted reuse: in a committed explode, a line that carries a code
\* no item has consumed gets an item with exactly that code, that code is not
\* allocated and the counter does not move for it; every other created unit
\* carries a code the allocator returned in this call.
C11_PreMintedReuse ==
    (Committed(1) /\ tx[1].op = "explode") =>
        LET po == tx[1].po
            reusers == {l \in Lines : CarriesFreeCode(po, l)}
            alloc == {tx[1].got[k] : k \in 1..Len(tx[1].got)}
        IN /\ \A l \in reusers :
                 /\ \E i \in NewItems : i.po_line_id = l /\ i.synergy_code = hist.synergy_id[l]
                 /\ hist.synergy_id[l] \notin alloc
           /\ \A i \in NewItems :
                 i.synergy_code \in alloc \/
                 (i.po_line_id \in reusers /\ i.synergy_code = hist.synergy_id[i.po_line_id])
           /\ Len(tx[1].got) = Cardinality(NewItems) - Cardinality(reusers)
           /\ \A p \in Prefixes :
                 /\ CountOf(tx[1].got, p) = 0 => id_prefix_counters[p] = hist.counters[p]
                 /\ hist.counters[p] # NoRow =>
                       id_prefix_counters[p] = hist.counters[p] + CountOf(tx[1].got, p)

C11_Witness ==
    /\ Committed(1) /\ tx[1].op = "explode"
    /\ \E l \in Lines :
          /\ CarriesFreeCode(tx[1].po, l)
          /\ NeedBefore(l) >= 2
          /\ hist.counters[LinePrefix(l)] # NoRow
    /\ \E l \in Lines :
          /\ CarriesFreeCode(tx[1].po, l)
          /\ hist.qty[l] = 1
          /\ Cardinality(ItemsOfLine(inventory_items, l)) = 1

\* the codes prefix-00001 .. prefix-0000n
FirstCodes(prefix, n) == {fmt_synergy(prefix, k) : k \in 1..n}

\* the entry of line l in a preview response (<<>> if it has none)
PreviewOf(previews, l) ==
    IF \E k \in 1..Len(previews) : previews[k].line_id = l
    THEN previews[CHOOSE k \in 1..Len(previews) : previews[k].line_id = l].codes
    ELSE <<>>

\* C12 - Worked example: on a fresh prefix with a line of qty 2 (created
\* first) and a line of qty 3, preview lists sequences 1,2 for the first line
\* and 3,4,5 for the second; a mint followed by an explode leaves exactly five
\* items carrying exactly the previewed codes 00001..00005; a repeated explode
\* creates nothing.
C12_WorkedExample ==
    /\ (Committed(1) /\ tx[1].op = "preview" /\ Untouched(hist)) =>
          /\ PreviewOf(tx[1].previews, 2) = <<fmt_synergy("A", 1), fmt_synergy("A", 2)>>
          /\ PreviewOf(tx[1].previews, 1) = <<fmt_synergy("A", 3), fmt_synergy("A", 4), fmt_synergy("A", 5)>>
    /\ (/\ Committed(1) /\ tx[1].op = "explode" /\ tx[1].po = 1
        /\ hist.previewed # {}
        /\ hist.items = {}
        /\ \A l \in LinesBefore(1) : hist.synergy_id[l] # NULL) =>
          /\ Cardinality(inventory_items) = 5
          /\ ItemCodes(inventory_items) = hist.previewed
          /\ ItemCodes(inventory_items) = FirstCodes("A", 5)
    /\ (Committed(1) /\ tx[1].op = "explode" /\ hist.prev_exploded = 1) =>
          /\ tx[1].created = 0
          /\ inventory_items = hist.items

C12_Witness ==
    /\ Committed(1) /\ tx[1].op = "explode" /\ hist.prev_exploded = 1
    /\ hist.previewed = FirstCodes("A", 5)
    /\ ItemCodes(inventory_items) = hist.previewed
    /\ Cardinality(inventory_items) = 5
    /\ \A l \in LinesBefore(1) : synergy_id[l] \in hist.previewed
    /\ tx[1].created = 0

\* max(true_max_seq(P) + 1, current next_seq(P)) in the tables the request found
SafeMinimumBefore(p) == Max(TrueMaxBefore(p) + 1, hist.counters[p])

C14_AcceptedSet ==
    (Done(1) /\ tx[1].op = "set") =>
        LET p == tx[1].prefix
        IN IF tx[1].outcome = "committed"
           THEN /\ id_prefix_counters = [hist.counters EXCEPT ![p] = tx[1].nxt]
                /\ synergy_id_events = Append(hist.events,
                       log_synergy_event("manual_set_next", p, tx[1].nxt, fmt_synergy(p, tx[1].nxt),
                                         <<hist.counters[p], tx[1].nxt, tx[1].reason>>))
           ELSE /\ id_prefix_counters = hist.counters
                /\ synergy_id_events = hist.events

C14_Witness ==
    /\ Committed(1) /\ tx[1].op = "set"
    /\ hist.counters[tx[1].prefix] # NoRow
    /\ tx[1].nxt > hist.counters[tx[1].prefix]
    /\ tx[1].reason = "recount"
    /\ Len(hist.events) >= 1

\* C15 - Reset: a committed reset_to_default leaves next_seq = true_max_seq + 1,
\* true_max_seq being the highest sequence in the line table or the item
\* table, and appends one reset_to_default event carrying that value.
C15_Reset ==
    (Committed(1) /\ tx[1].op = "reset") =>
        LET p == tx[1].prefix
            safe == TrueMaxBefore(p) + 1
        IN /\ id_prefix_counters = [hist.counters EXCEPT ![p] = safe]
           /\ synergy_id_events = Append(hist.events,
                  log_synergy_event("reset_to_default", p, safe, fmt_synergy(p, safe), <<safe>>))

\* the lines a preview request selects, in the tables it found
PreviewedLines == {l \in hist.lines : LinePO(l) = tx[1].po /\ l \in tx[1].line_ids}

\* the sequence numbers of the codes of one preview entry, in order
EntrySeqs(e) == [j \in 1..Len(e.codes) |-> SeqOfCode(e.codes[j])]

\* the entries before position k that have the prefix of entry k
EarlierOfPrefix(pv, k) == {i \in 1..(k - 1) : pv[i].prefix = pv[k].prefix}

\* where the block of entry k has to start: after the block of the previous
\* entry of its prefix, or after the highest sequence in the tables
BlockStart(pv, k) ==
    IF EarlierOfPrefix(pv, k) = {}
    THEN TrueMaxBefore(pv[k].prefix) + 1
    ELSE LET i == SetMax(EarlierOfPrefix(pv, k))
         IN SeqOfCode(pv[i].codes[Len(pv[i].codes)]) + 1

\* C16 - Preview blocks: a preview answers the selected lines in creation
\* order then id; every line with a prefix gets qty consecutive codes of its
\* prefix, the first line of a prefix starting at true_max_seq + 1 and each
\* later one right after the previous block; no code is listed for two lines.
C16_PreviewBlocks ==
    (Committed(1) /\ tx[1].op = "preview") =>
        LET pv == tx[1].previews
        IN /\ [k \in 1..Len(pv) |-> pv[k].line_id] = SortLines(PreviewedLines, TRUE)
           /\ \A k \in 1..Len(pv) :
                 pv[k].prefix # "" =>
                    /\ Len(pv[k].codes) = hist.qty[pv[k].line_id]
                    /\ \A j \in 1..Len(pv[k].codes) :
                          /\ Like(pv[k].codes[j], pv[k].prefix)
                          /\ SeqOfCode(pv[k].codes[j]) = BlockStart(pv, k) + j - 1
           /\ \A k, i \in 1..Len(pv) : \A j \in 1..Len(pv[k].codes) : \A h \in 1..Len(pv[i].codes) :
                 k # i => pv[k].codes[j] # pv[i].codes[h]

\* the blocks are consecutive and chained, whatever the seed
C16_Chained ==
    /\ Committed(1) /\ tx[1].op = "preview"
    /\ Len(tx[1].previews) = 2
    /\ tx[1].previews[1].prefix = tx[1].previews[2].prefix
    /\ tx[1].previews[1].prefix # ""
    /\ Len(tx[1].previews[1].codes) = 2
    /\ EntrySeqs(tx[1].previews[1]) = <<TrueMaxBefore("A") + 1, TrueMaxBefore("A") + 2>>
    /\ EntrySeqs(tx[1].previews[2]) = <<TrueMaxBefore("A") + 3>>
    /\ TrueMaxBefore("A") >= 1

\* the lines of a response that have a prefix, with their codes
CodedEntries(pv) == {<<pv[k].line_id, pv[k].codes>> : k \in {i \in 1..Len(pv) : pv[i].prefix # ""}}

\* C17 - Preview tolerance: a line without prefix is answered with no codes
\* and a note, the call commits, and the other lines get the codes that the
\* preview of the same tables gives them when that line is not requested.
C17_PreviewTolerance ==
    (Done(1) /\ tx[1].op = "preview" /\ tx[1].outcome = "committed") =>
        LET pv == tx[1].previews
        IN /\ tx[1].status = 200
           /\ \A l \in PreviewedLines : \E k \in 1..Len(pv) : pv[k].line_id = l
           /\ \A k \in 1..Len(pv) :
                 LinePrefix(pv[k].line_id) = "" => (pv[k].codes = <<>> /\ pv[k].note # "")
           /\ \A k \in 1..Len(pv) :
                 LinePrefix(pv[k].line_id) # "" => (pv[k].codes # <<>> /\ pv[k].note = "")
           /\ (hist.prev_previews # <<>> /\
               {e[1] : e \in CodedEntries(pv)} = {e[1] : e \in CodedEntries(hist.prev_previews)})
                 => CodedEntries(pv) = CodedEntries(hist.prev_previews)

C17_Witness ==
    /\ Committed(1) /\ tx[1].op = "preview"
    /\ Len(tx[1].previews) = 2
    /\ tx[1].previews[1].prefix = "" /\ tx[1].previews[1].codes = <<>>
    /\ tx[1].previews[2].prefix # "" /\ Len(tx[1].previews[2].codes) >= 1
    /\ Len(hist.prev_previews) = 1
    /\ CodedEntries(tx[1].previews) = CodedEntries(hist.prev_previews)
    /\ TrueMaxBefore(tx[1].previews[2].prefix) >= 1

PreviewRunning == Active(1) /\ tx[1].op = "preview"

\* connection t holds no row lock and has no uncommitted write
HoldsNothing(t) ==
    /\ \A p \in Prefixes : lock[p] # t /\ tx[t].w_counters[p] = NoRow
    /\ \A l \in Lines : tx[t].w_synergy_id[l] = Unwritten /\ tx[t].w_qty[l] = 0
    /\ tx[t].w_items = {} /\ tx[t].w_events = <<>> /\ tx[t].w_labels = {}
    /\ tx[t].d_lines = {} /\ tx[t].d_items = {} /\ tx[t].d_pos = {}

\* C18 - Preview is read-only and lock-free: no step of a preview changes a
\* table or a lock; a running preview holds no lock and no uncommitted write,
\* its next statement can always run, and so can the next statement of a
\* concurrent take, mint or explode.
C18_PreviewReadOnly ==
    /\ [][(tx'[1] # tx[1] /\ tx'[1].op = "preview") => UNCHANGED <<db_tables, lock>>]_vars
    /\ [](PreviewRunning =>
            /\ HoldsNothing(1)
            /\ ENABLED PreviewStep(1)
            /\ (Active(2) /\ ~tx[2].failed) => ENABLED WriterStep(2))

C18_Witness ==
    /\ Committed(1) /\ tx[1].op = "preview"
    /\ Len(tx[1].previews) = 2
    /\ Active(2) /\ lock["A"] = 2
    /\ tx[2].w_items # {}
    /\ hist.counters["A"] # NoRow

\* C19 - Explode is all-or-nothing: an explode that does not commit leaves the
\* items and the counters exactly as it found them; an explode that commits
\* leaves every earlier item in place, has created as many items as it reports,
\* every code it allocated is on one of those items, and the counter of its
\* prefix stands above it.
C19_ExplodeAllOrNothing ==
    (Done(1) /\ tx[1].op = "explode") =>
        IF tx[1].outcome = "committed"
        THEN /\ hist.items \subseteq inventory_items
             /\ Cardinality(NewItems) = tx[1].created
             /\ \A k \in 1..Len(tx[1].got) :
                   /\ tx[1].got[k] \in ItemCodes(NewItems)
                   /\ \A p \in Prefixes :
                         Like(tx[1].got[k], p) =>
                            /\ id_prefix_counters[p] # NoRow
                            /\ id_prefix_counters[p] > SeqOfCode(tx[1].got[k])
        ELSE /\ inventory_items = hist.items
             /\ id_prefix_counters = hist.counters

C19_Witness ==
    /\ Done(1) /\ tx[1].op = "explode" /\ tx[1].outcome = "raised"
    /\ tx[1].n_alloc >= 2
    /\ hist.items # {}
    /\ hist.counters["A"] # NoRow

\* the lines the overwrite names: line_ids when given, else the lines of the PO
SelectedLines(po, line_ids) ==
    IF line_ids # {} THEN line_ids \cap hist.lines ELSE LinesBefore(po)

\* the codes the allocator had handed out when the request began
ReturnedBefore == {returned[k] : k \in 1..(Len(returned) - Len(tx[1].got))}

\* C20 - Re-mint only advances: after a committed mint with overwrite every
\* selected line carries a code allocated by this call whose sequence is above
\* every sequence handed out before for its prefix, and no counter is lower
\* than it was before the call.
C20_RemintAdvances ==
    (Committed(1) /\ tx[1].op = "mint" /\ tx[1].overwrite) =>
        /\ \A l \in SelectedLines(tx[1].po, tx[1].line_ids) :
              /\ synergy_id[l] # NULL
              /\ \E k \in 1..Len(tx[1].got) : tx[1].got[k] = synergy_id[l]
              /\ \A c \in ReturnedBefore : \A p \in Prefixes :
                    (Like(c, p) /\ Like(synergy_id[l], p)) => SeqOfCode(synergy_id[l]) > SeqOfCode(c)
        /\ \A p \in Prefixes : id_prefix_counters[p] >= hist.counters[p]

C20_ForeignLineCleared ==
    /\ Committed(1) /\ tx[1].op = "mint" /\ tx[1].overwrite
    /\ \E l \in tx[1].line_ids :
          /\ LinePO(l) # tx[1].po
          /\ hist.synergy_id[l] # NULL
          /\ synergy_id[l] = NULL
    /\ tx[1].updated = 0

\* no request is in progress on any connection
Quiescent == \A t \in Txns : ~Active(t)

\* C21 - Counter discipline under admin operations: once every transaction has
\* ended, the counter of each prefix stands above every sequence a committed
\* allocation returned for it, also when a set or a reset ran next to the
\* allocations.
C21_NoLostAdvance ==
    Quiescent =>
        \A k \in 1..Len(returned) : \A p \in Prefixes :
            Like(returned[k], p) =>
                (id_prefix_counters[p] # NoRow /\ id_prefix_counters[p] > SeqOfCode(returned[k]))

\* a manual set that read the counter before a take committed and wrote it
\* afterwards: the mint event precedes the set event, and the set event
\* records an old_next and a next that are not above the minted sequence
C21_SetOverwritesTake ==
    /\ Quiescent
    /\ \E i, j \in 1..Len(synergy_id_events) :
          /\ i < j
          /\ synergy_id_events[i].event_type = "mint"
          /\ synergy_id_events[j].event_type = "manual_set_next"
          /\ synergy_id_events[j].prefix = synergy_id_events[i].prefix
          /\ synergy_id_events[j].meta[1] <= synergy_id_events[i].seq
          /\ synergy_id_events[j].seq <= synergy_id_events[i].seq
          /\ id_prefix_counters[synergy_id_events[j].prefix] = synergy_id_events[j].seq
    /\ \A k \in 1..Len(synergy_id_events) : synergy_id_events[k].event_type # "reset_to_default"

\* C22 - Code uniqueness as a state invariant: in every committed state no two
\* items carry the same code, no two lines carry the same code, and an item
\* carries the code of a line only if it belongs to that line.
C22_CodesUnique ==
    /\ \A i, j \in inventory_items : i.synergy_code = j.synergy_code => i = j
    /\ \A l, m \in po_lines : (synergy_id[l] # NULL /\ synergy_id[l] = synergy_id[m]) => l = m
    /\ \A i \in inventory_items : \A l \in po_lines : i.synergy_code = synergy_id[l] => i.po_line_id = l

\* two lines carry one code and each of the two mints that wrote it returned it
C22_TwoLinesOneCode ==
    /\ Quiescent
    /\ \E l, m \in po_lines : l # m /\ synergy_id[l] # NULL /\ synergy_id[l] = synergy_id[m]
    /\ \E i, j \in 1..Len(returned) : i # j /\ returned[i] = returned[j]

\* the audit events committed since the request on connection 1 began
NewEvents == SubSeq(synergy_id_events, Len(hist.events) + 1, Len(synergy_id_events))

\* C23 - One mint event per allocation: a committed take, mint or explode has
\* appended, for each code the allocator returned to it and in the same order,
\* exactly one event of type mint whose prefix, seq and code are those of the
\* returned code, and nothing else.
C23_OneMintEventPerAllocation ==
    (Committed(1) /\ tx[1].op \in {"take", "mint", "explode"}) =>
        /\ Len(NewEvents) = Len(tx[1].got)
        /\ \A k \in 1..Len(tx[1].got) :
              /\ NewEvents[k].event_type = "mint"
              /\ NewEvents[k].code = tx[1].got[k]
              /\ NewEvents[k].seq = SeqOfCode(tx[1].got[k])
              /\ Like(tx[1].got[k], NewEvents[k].prefix)

C23_Witness ==
    /\ Committed(1) /\ tx[1].op \in {"mint", "explode"}
    /\ Len(tx[1].got) >= 2
    /\ hist.events # <<>>
    /\ Len(synergy_id_events) = Len(hist.events) + 2

\* C24 - Prefix isolation: a take, reset or set of prefix P holds no lock and
\* no pending write on the counter of another prefix, a counter changes only
\* when a transaction on its own prefix commits, and of two transactions on
\* different prefixes each can always run its next statement.
C24_PrefixIsolation ==
    /\ [][\A q \in Prefixes :
            id_prefix_counters'[q] # id_prefix_counters[q] =>
                \E t \in Txns : tx[t].pc = "commit" /\ tx[t].prefix = q /\ tx'[t].pc = "done"]_vars
    /\ [](\A t \in Txns :
            (Active(t) /\ tx[t].op \in {"take", "set", "reset"}) =>
                /\ \A q \in Prefixes \ {tx[t].prefix} : lock[q] # t /\ tx[t].w_counters[q] = NoRow
                /\ ((~tx[t].failed /\ \A u \in Txns \ {t} : Active(u) => tx[u].prefix # tx[t].prefix)
                       => ENABLED CounterStep(t)))

C24_Witness ==
    /\ lock["A"] = 1 /\ lock["B"] = 2
    /\ tx[1].w_counters["A"] # NoRow /\ tx[2].w_counters["B"] # NoRow
    /\ tx[1].op \in {"take", "reset"} /\ tx[2].op = "set"
    /\ id_prefix_counters["A"] # NoRow /\ id_prefix_counters["B"] # NoRow

\* C25 - Audit log is append-only: every step leaves the committed events it
\* found in place and unchanged, and only adds events after them.
C25_AppendOnly ==
    [][/\ Len(synergy_id_events') >= Len(synergy_id_events)
       /\ SubSeq(synergy_id_events', 1, Len(synergy_id_events)) = synergy_id_events]_vars

C25_Witness ==
    /\ Len(synergy_id_events) >= 2
    /\ 1 \notin purchase_orders
    /\ \E k \in 1..Len(synergy_id_events) : synergy_id_events[k].event_type = "mint"
    /\ synergy_id_events[Len(synergy_id_events)].event_type \in {"reset_to_default", "manual_set_next"}

\* the codes of a sequence of codes, as a set
CodeSet(codes) == {codes[j] : j \in 1..Len(codes)}

\* C26 - Preview agrees with commitment per line: when a preview of the lines
\* of a purchase order is followed by a mint and then an explode of that
\* purchase order, with nothing in between, the items the explode created for
\* each line carry exactly the codes the preview listed for that line.
C26_PreviewAgrees ==
    (/\ Committed(1) /\ tx[1].op = "explode"
     /\ hist.plan.stage = "minted" /\ hist.plan.po = tx[1].po) =>
        \A k \in 1..Len(hist.plan.previews) :
            ItemCodes(ItemsOfLine(NewItems, hist.plan.previews[k].line_id))
                = CodeSet(hist.plan.previews[k].codes)

\* every line has one unit and the tables hold no code, yet the counter is
\* ahead: the preview lists sequences the commitment does not use
C26_CounterAhead ==
    /\ Committed(1) /\ tx[1].op = "explode"
    /\ hist.plan.stage = "minted" /\ hist.plan.po = tx[1].po
    /\ \A l \in Lines : hist.qty[l] = 1
    /\ Len(hist.plan.previews) = 2
    /\ PreviewedCodes(hist.plan.previews) = FirstCodes("A", 2)
    /\ ItemCodes(NewItems) \cap PreviewedCodes(hist.plan.previews) # ItemCodes(NewItems)
    /\ Cardinality(NewItems) = 2

\* C27 - Concurrent explosion of one PO: whatever explodes ran and however
\* they interleaved, no line has more items than its qty (no line had items
\* to begin with and no qty is changed).
C27_NoOverExplosion ==
    \A l \in po_lines : Cardinality(ItemsOfLine(inventory_items, l)) <= qty[l]

\* both connections exploded the same purchase order, both committed, and a
\* line of qty 1 has two items
C27_ExplodedTwice ==
    /\ Committed(1) /\ Committed(2)
    /\ tx[1].op = "explode" /\ tx[2].op = "explode" /\ tx[1].po = tx[2].po
    /\ tx[1].created >= 1 /\ tx[2].created >= 1
    /\ \E l \in po_lines : qty[l] = 1 /\ Cardinality(ItemsOfLine(inventory_items, l)) = 2

RECURSIVE OfPrefix(_, _)
OfPrefix(s, p) ==
    IF s = <<>> THEN <<>>
    ELSE (IF Like(Head(s), p) THEN <<Head(s)>> ELSE <<>>) \o OfPrefix(Tail(s), p)

\* C29 - Exact reservation step: a committed take, mint or explode that found
\* the counter of P at n was handed the codes of n, n + 1, ... for P in that
\* order and left next_seq = n + their number; whenever the request was handed
\* a code of P, next_seq - 1 is the last one and no committed allocation ever
\* returned a higher sequence of P.
C29_ExactStep ==
    \A p \in Prefixes :
        (Committed(1) /\ tx[1].op \in {"take", "mint", "explode"}) =>
            LET codes == OfPrefix(tx[1].got, p)
            IN /\ hist.counters[p] # NoRow =>
                     /\ \A k \in 1..Len(codes) : codes[k] = fmt_synergy(p, hist.counters[p] + k - 1)
                     /\ id_prefix_counters[p] = hist.counters[p] + Len(codes)
               /\ codes # <<>> =>
                     /\ SeqOfCode(codes[Len(codes)]) = id_prefix_counters[p] - 1
                     /\ \A k \in 1..Len(returned) :
                           Like(returned[k], p) => SeqOfCode(returned[k]) <= id_prefix_counters[p] - 1

C29_Witness ==
    /\ Committed(1) /\ tx[1].op \in {"mint", "explode"}
    /\ hist.counters["A"] >= 2
    /\ Len(OfPrefix(tx[1].got, "A")) >= 2
    /\ id_prefix_counters["A"] = hist.counters["A"] + 2

\* the lines a mint without overwrite has to give a code: the lines of the PO
\* (among line_ids when given) that have a prefix and no code
MintTargets(po, line_ids) ==
    {l \in LinesBefore(po) : /\ line_ids = {} \/ l \in line_ids
                             /\ hist.synergy_id[l] = NULL
                             /\ LinePrefix(l) # ""}

\* C30 - Mint without overwrite: a committed mint gives each selected line of
\* the PO that has a prefix and no code one code allocated by this call, a
\* different one for each; every other line keeps what it had; one sequence is
\* consumed per line assigned and none for the lines skipped; updated is the
\* number of lines assigned; the same mint repeated right away returns
\* updated = 0, allocates nothing and moves no counter.
C30_MintWithoutOverwrite ==
    (Committed(1) /\ tx[1].op = "mint" /\ ~tx[1].overwrite) =>
        LET targets == MintTargets(tx[1].po, tx[1].line_ids)
        IN /\ \A l \in targets :
                 /\ synergy_id[l] \in CodeSet(tx[1].got)
                 /\ Like(synergy_id[l], LinePrefix(l))
           /\ \A l, m \in targets : synergy_id[l] = synergy_id[m] => l = m
           /\ \A l \in hist.lines \ targets : synergy_id[l] = hist.synergy_id[l]
           /\ Len(tx[1].got) = Cardinality(targets)
           /\ tx[1].updated = Cardinality(targets)
           /\ \A p \in Prefixes :
                 CountOf(tx[1].got, p) = Cardinality({l \in targets : LinePrefix(l) = p})
           /\ hist.prev_mint = [po |-> tx[1].po, line_ids |-> tx[1].line_ids] =>
                 /\ tx[1].updated = 0
                 /\ tx[1].got = <<>>
                 /\ id_prefix_counters = hist.counters
                 /\ synergy_id = hist.synergy_id

C30_Witness ==
    /\ Committed(1) /\ tx[1].op = "mint" /\ ~tx[1].overwrite
    /\ hist.prev_mint = [po |-> tx[1].po, line_ids |-> tx[1].line_ids]
    /\ tx[1].updated = 0
    /\ \E l \in LinesBefore(tx[1].po) : synergy_id[l] # NULL /\ synergy_id[l] \in CodeSet(returned)
    /\ \E l \in LinesBefore(tx[1].po) : synergy_id[l] = NULL /\ LinePrefix(l) = ""

\* C31 - Mint frame: a mint for purchase order po_id, with or without
\* overwrite and for any line_ids (ids of lines of another purchase order
\* included), changes the code of no line outside po_id.
C31_MintFrame ==
    (Done(1) /\ tx[1].op = "mint") =>
        \A l \in Lines : LinePO(l) # tx[1].po => synergy_id[l] = hist.synergy_id[l]

\* a committed mint of one purchase order with overwrite whose line_ids name
\* only lines of the other purchase order: such a line carried a code the
\* allocator had handed out and carries none now
C31_ForeignCodeLost ==
    /\ Committed(1) /\ tx[1].op = "mint" /\ tx[1].overwrite
    /\ tx[1].line_ids # {}
    /\ \A l \in tx[1].line_ids : LinePO(l) # tx[1].po
    /\ \E l \in tx[1].line_ids :
          /\ \E k \in 1..Len(returned) : returned[k] = hist.synergy_id[l]
          /\ synergy_id[l] = NULL
    /\ tx[1].got = <<>>

\* C32 - No lock-order deadlock: concurrent mint and explode transactions over
\* purchase orders whose lines use several prefixes never reach a state in
\* which each waits for a lock the other holds.
C32_NoWaitCycle == \A t, u \in Txns : ~(WaitsFor(t, u) /\ WaitsFor(u, t))

\* a mint that holds the counter row of A and asks for the one of B, next to an
\* explode of the same purchase order that holds B and asks for A
C32_MintAndExplodeCrossed ==
    \E t, u \in Txns :
        /\ tx[t].op = "mint" /\ tx[u].op = "explode"
        /\ lock["A"] = t /\ lock["B"] = u
        /\ tx[t].prefix = "B" /\ tx[u].prefix = "A"
        /\ WaitsFor(t, u) /\ WaitsFor(u, t)

ProducedCodes ==
    {returned[k] : k \in 1..Len(returned)} \cup label_inventory
        \cup PreviewedCodes(tx[1].previews)
        \cup (IF tx[1].content # NULL THEN {tx[1].content} ELSE {})

\* C34 - Uniform code format: every code-producing path renders sequence n of
\* prefix P as the same string, zero-padded to one fixed width, so a (prefix,
\* sequence) pair has exactly one code string.
C34_UniformFormat ==
    \A c, d \in ProducedCodes :
        /\ Len(SplitPart2(c)) = Len(SplitPart2(d))
        /\ \A p \in Prefixes : (Like(c, p) /\ Like(d, p) /\ SeqOfCode(c) = SeqOfCode(d)) => c = d

\* a stored label id and a code of the preview just answered have the same
\* prefix and the same sequence number and are different strings
C34_TwoStringsOneSequence ==
    /\ Done(1) /\ tx[1].op = "preview"
    /\ \E c \in label_inventory : \E d \in PreviewedCodes(tx[1].previews) :
          /\ c # d
          /\ \E p \in Prefixes : Like(c, p) /\ Like(d, p)
          /\ SeqOfCode(c) = SeqOfCode(d)

\* C35 - Items per line never exceed quantity: after any sequence of
\* explode-by-line and explode_group calls on a purchase order whose line
\* quantities do not change, no line has more items than its qty.
C35_ItemsWithinQty ==
    \A l \in po_lines : Cardinality(ItemsOfLine(inventory_items, l)) <= qty[l]

\* a committed explode_group that created qty items for a line that had its
\* items already
C35_GroupExplodedAgain ==
    /\ Committed(2) /\ tx[2].op = "explode_group" /\ tx[2].created >= 1
    /\ \E l \in po_lines :
          /\ LinePO(l) = tx[2].po
          /\ category_guess[l] = tx[2].category
          /\ Cardinality(ItemsOfLine(inventory_items, l)) = 2 * qty[l]

\* the committed mint events
MintEvents == {k \in 1..Len(synergy_id_events) : synergy_id_events[k].event_type = "mint"}

\* C36 - Audit and counter stay consistent: in every committed state, for
\* every prefix with a counter row, every committed mint event of the prefix
\* has seq < next_seq, and no mint event exists for an allocation whose
\* transaction rolled back.
C36_AuditWithinCounter ==
    /\ \A k \in MintEvents :
          id_prefix_counters[synergy_id_events[k].prefix] # NoRow =>
              synergy_id_events[k].seq < id_prefix_counters[synergy_id_events[k].prefix]
    /\ \A k \in MintEvents : \E j \in 1..Len(returned) : returned[j] = synergy_id_events[k].code

\* after a committed reset the counter stands at or below the sequence of a
\* mint event whose code an item still carries
C36_ResetBelowMintedItem ==
    /\ Committed(1) /\ tx[1].op = "reset"
    /\ \E k \in MintEvents :
          /\ synergy_id_events[k].prefix = tx[1].prefix
          /\ synergy_id_events[k].code \in ItemCodes(inventory_items)
          /\ synergy_id_events[k].seq >= id_prefix_counters[tx[1].prefix]

\* C37 - Peek: peek(P) succeeds for any prefix, changes no persisted state, and
\* returns the code that a take(P) issued immediately afterwards returns, with
\* and without a counter row for P.
C37_PeekAgreesWithTake ==
    /\ (Done(1) /\ tx[1].op \in {"peek", "legacy_peek"}) =>
          /\ tx[1].status = 200
          /\ tx[1].content # NULL
          /\ id_prefix_counters = hist.counters
          /\ synergy_id = hist.synergy_id
          /\ inventory_items = hist.items
          /\ synergy_id_events = hist.events
    /\ (Committed(1) /\ tx[1].op = "take" /\ hist.prev_peek.prefix = tx[1].prefix) =>
          tx[1].got = <<hist.prev_peek.content>>

\* GET /prefix/A/peek of routes_synergy.py answered 500 though A has a counter row
C37_PeekRaises ==
    /\ Done(1) /\ tx[1].op = "peek" /\ tx[1].prefix = "A"
    /\ tx[1].outcome = "raised" /\ tx[1].status = 500
    /\ tx[1].content = NULL
    /\ hist.counters["A"] # NoRow
====
